---------------------------- MODULE Spec2Model ----------------------------
(***************************************************************************)
(* Tenant-aware token issuance and validation of suteetoe/demoapimetric.   *)
(*                                                                         *)
(*  - oauth-service : clients, opaque access/refresh token pairs, the      *)
(*    grant handlers behind POST /oauth/token, introspection, revocation   *)
(*    and the bearer gate (handler/token_handler.go, health_handler.go).   *)
(*  - authen-service: identities, tenants, memberships (UserTenant) and    *)
(*    the JWT-issuing handlers (handler/auth_handler.go,                   *)
(*    handler/tenant_handler.go).                                          *)
(*                                                                         *)
(* The relational store is the only shared state.  A statement executed    *)
(* through database.GetDB() is one atomic step; statements of one handler  *)
(* may interleave with statements of other requests unless they run in a   *)
(* transaction.                                                            *)
(***************************************************************************)
EXTENDS Integers, Sequences, FiniteSets, TLC

VARIABLES
    \* ---- oauth-service store -------------------------------------------
    clients,        \* table clients        : sequence of Client rows
    accessTokens,   \* table access_tokens  : sequence of AccessToken rows
    refreshTokens,  \* table refresh_tokens : sequence of RefreshToken rows
    now,            \* time.Now(), in model time units
    rq,             \* per request slot: position inside handleRefreshTokenGrant
    resp,           \* the last HTTP response of the oauth-service
    \* ---- authen-service store ------------------------------------------
    users,          \* table users          : sequence of User rows
    tenants,        \* table tenants        : sequence of Tenant rows
    userTenants,    \* table user_tenants   : sequence of UserTenant rows
    tx,             \* per request slot: position inside SetDefaultTenant
    aresp,          \* the last HTTP response of the authen-service
    \* ---- JWT auth gate of the services --------------------------------
    jwt,            \* the JWT that GenerateTokenWithTenant has signed
    gresp           \* the last answer of a route behind a JWT middleware

vars == << clients, accessTokens, refreshTokens, now, rq, resp,
           users, tenants, userTenants, tx, aresp, jwt, gresp >>

oauthVars  == << clients, accessTokens, refreshTokens, now, rq, resp >>
authenVars == << users, tenants, userTenants, tx, aresp >>
gateVars   == << jwt, gresp >>

-----------------------------------------------------------------------------
(* Bounds of the model.                                                    *)

MaxClients == 2     \* clients that RegisterClient may create
MaxPairs   == 3     \* token pairs that createTokens may insert
MaxIssued  == 1     \* pairs issued by the client_credentials and password grants
MaxTime    == 3     \* the clock stops ticking here
MaxHist    == 3     \* recorded exchange attempts per refresh token
MaxTenants == 2     \* tenants that CreateTenant may create
MaxRows    == 3     \* user_tenants rows (soft-deleted ones included)
MaxStored  == 4     \* user_tenants rows where a user joins two tenants of another

Slots == {1, 2}     \* concurrent requests inside a multi-statement handler
UserIds == {1, 2}   \* identities that may register

Nil == 0            \* a NULL column / nil pointer (ids start at 1)

(* TokenConfig: lifetimes in model time units (operator-configured).       *)
AccessTokenLifetime  == 1
RefreshTokenLifetime == 2

-----------------------------------------------------------------------------
(* Strings.  A string is a sequence of symbols; a scope or grant word is   *)
(* one symbol, and so are the separators " " and ",".                      *)

SP == " "
CM == ","

RECURSIVE IndexOf(_, _, _)
IndexOf(s, sep, i) ==
    IF i > Len(s) THEN 0
    ELSE IF s[i] = sep THEN i ELSE IndexOf(s, sep, i + 1)

(* strings.Split(s, sep) for a one-symbol separator: n separators give     *)
(* n+1 fields, and Split("", sep) is [""].                                 *)
RECURSIVE Split(_, _)
Split(s, sep) ==
    LET i == IndexOf(s, sep, 1)
    IN  IF i = 0 THEN << s >>
        ELSE << SubSeq(s, 1, i - 1) >> \o Split(SubSeq(s, i + 1, Len(s)), sep)

(* strings.Join(elems, sep)                                                *)
RECURSIVE Join(_, _)
Join(elems, sep) ==
    IF elems = << >> THEN << >>
    ELSE IF Len(elems) = 1 THEN elems[1]
    ELSE elems[1] \o << sep >> \o Join(Tail(elems), sep)

(* strings.TrimSpace(s)                                                    *)
RECURSIVE TrimSpace(_)
TrimSpace(s) ==
    IF s = << >> THEN s
    ELSE IF s[1] = SP THEN TrimSpace(Tail(s))
    ELSE IF s[Len(s)] = SP THEN TrimSpace(SubSeq(s, 1, Len(s) - 1))
    ELSE s

(* joinStrings(strs, sep): "" for an empty slice, else strs[0] sep ...     *)
RECURSIVE joinStringsFrom(_, _, _, _)
joinStringsFrom(strs, sep, i, result) ==
    IF i > Len(strs) THEN result
    ELSE joinStringsFrom(strs, sep, i + 1, result \o << sep >> \o strs[i])

joinStrings(strs, sep) ==
    IF Len(strs) = 0 THEN << >>
    ELSE joinStringsFrom(strs, sep, 2, strs[1])

Range(f) == { f[i] : i \in DOMAIN f }


-----------------------------------------------------------------------------
(* oauth-service: rows.                                                    *)

(* generateSecureToken(): 32 random bytes, so every generated token string *)
(* is fresh.  Row n of access_tokens gets 2n, row n of refresh_tokens      *)
(* 2n+1; 0 is the empty form value and 1 a string that was never issued.   *)
EmptyTok    == 0
UnknownTok  == 1
AccessTok(n)  == 2 * n
RefreshTok(n) == 2 * n + 1

(* model.Client, as RegisterClient fills it.  reqGrants and reqScopes are  *)
(* history fields: the "grants" and "scopes" lists of the registration     *)
(* request.                                                                *)
NewClient(id, grants, scopes) ==
    [ ID        |-> id,
      Grants    |-> joinStrings(grants, CM),
      Scopes    |-> joinStrings(scopes, CM),
      IsActive  |-> TRUE,
      reqGrants |-> grants,
      reqScopes |-> scopes ]

(* model.AccessToken, as createTokens fills it (BeforeCreate sets ID and   *)
(* Token).  grant and reqScope are history fields: the grant that created  *)
(* the row and the "scope" form value of that request.                     *)
NewAccessToken(id, clientID, userID, tenantID, scopes, time, grant, reqScope) ==
    [ ID        |-> id,
      Token     |-> AccessTok(id),
      ClientID  |-> clientID,
      UserID    |-> userID,
      TenantID  |-> tenantID,
      Scopes    |-> scopes,
      ExpiresAt |-> time + AccessTokenLifetime,
      Revoked   |-> FALSE,
      grant     |-> grant,
      reqScope  |-> reqScope ]

(* model.RefreshToken, as createTokens fills it.  hist and byClient are    *)
(* history fields: the outcomes (TRUE = 200) of the exchanges in which the *)
(* owning client presented this token while it was unexpired and not       *)
(* revoked through RevokeToken; and whether RevokeToken has revoked it.    *)
NewRefreshToken(id, accessTokenID, clientID, userID, tenantID, time) ==
    [ ID            |-> id,
      Token         |-> RefreshTok(id),
      AccessTokenID |-> accessTokenID,
      ClientID      |-> clientID,
      UserID        |-> userID,
      TenantID      |-> tenantID,
      ExpiresAt     |-> time + RefreshTokenLifetime,
      Revoked       |-> FALSE,
      hist          |-> << >>,
      byClient      |-> FALSE ]

(* AccessToken.IsExpired / RefreshToken.IsExpired: time.Now().After(ExpiresAt) *)
IsExpired(t, time) == time > t.ExpiresAt

(* AccessToken.IsValid / RefreshToken.IsValid                              *)
IsValid(t, time) == ~t.Revoked /\ ~IsExpired(t, time)

-----------------------------------------------------------------------------
(* oauth-service: helpers of token_handler.go.                             *)

(* strings.Contains(s, substr)                                             *)
Contains(s, substr) ==
    \E i \in 0 .. Len(s) :
        /\ i + Len(substr) <= Len(s)
        /\ SubSeq(s, i + 1, i + Len(substr)) = substr

(* An allow-list test by substring instead of by element.                  *)
isGrantAllowedBySubstring(allowedGrants, requestedGrant) ==
    Contains(allowedGrants, requestedGrant)

isGrantAllowed(allowedGrants, requestedGrant) ==
    LET grants == Split(allowedGrants, CM)
    IN  \E i \in DOMAIN grants : TrimSpace(grants[i]) = requestedGrant

(* A validateScopes that grants whatever is requested.                     *)
validateScopesUnfiltered(allowedScopes, requestedScopes) ==
    IF requestedScopes = << >> THEN allowedScopes ELSE requestedScopes

validateScopes(allowedScopes, requestedScopes) ==
    IF requestedScopes = << >> THEN allowedScopes
    ELSE LET allowedScopeMap == Range(Split(allowedScopes, SP))
             inMap(scope)    == scope \in allowedScopeMap
             validScopes     == SelectSeq(Split(requestedScopes, SP), inMap)
         IN  Join(validScopes, SP)

(* authenticateUser: the mock accepts one fixed account, user id 1, and    *)
(* does not look at tenantIDStr.  Nil stands for the error return.         *)
authenticateUser(username, password, tenantIDStr) ==
    IF username = "test@example.com" /\ password = "password" THEN 1 ELSE Nil

(* strconv.ParseUint(s, 10, 32): -1 stands for the error return.           *)
DigitVal == [ c \in {"0", "1", "2"} |-> CASE c = "0" -> 0 [] c = "1" -> 1 [] c = "2" -> 2 ]

RECURSIVE ParseDigits(_, _)
ParseDigits(s, acc) ==
    IF s = << >> THEN acc
    ELSE IF s[1] \notin DOMAIN DigitVal THEN -1
    ELSE ParseDigits(Tail(s), 10 * acc + DigitVal[s[1]])

ParseUint(s) == IF s = << >> THEN -1 ELSE ParseDigits(s, 0)

(* The JSON body of a response; fields a response does not carry are       *)
(* empty.  by records the authenticated client of a revocation request.    *)
Resp(op, status, error, desc) ==
    [ op |-> op, status |-> status, error |-> error, desc |-> desc,
      scope |-> << >>, access |-> EmptyTok, refresh |-> EmptyTok,
      active |-> FALSE, by |-> "" ]

NoResp == Resp("none", 0, "", "")

TokenResp(op, at, rt, scope) ==
    [ Resp(op, 200, "", "") EXCEPT !.scope = scope, !.access = at.Token,
                                   !.refresh = rt.Token ]

(* createTokens: INSERT the access token, then the refresh token that      *)
(* references it, as two statements outside any transaction.  dbErr names  *)
(* the INSERT that returns an error ("" when both succeed): createTokens   *)
(* then returns the error and leaves what it has written.                  *)
createdAccess(clientID, userID, tenantID, scopes, grant, reqScope) ==
    NewAccessToken(Len(accessTokens) + 1, clientID, userID, tenantID, scopes,
                   now, grant, reqScope)

createdRefresh(at) ==
    NewRefreshToken(Len(refreshTokens) + 1, at.ID, at.ClientID, at.UserID,
                    at.TenantID, now)

createTokens(clientID, userID, tenantID, scopes, grant, reqScope, dbErr) ==
    LET at == createdAccess(clientID, userID, tenantID, scopes, grant, reqScope)
    IN  /\ Len(accessTokens) < MaxPairs
        /\ accessTokens'  = IF dbErr = "access_tokens" THEN accessTokens
                            ELSE Append(accessTokens, at)
        /\ refreshTokens' = IF dbErr = "" THEN Append(refreshTokens, createdRefresh(at))
                            ELSE refreshTokens

ServerError(op) == Resp(op, 500, "server_error", "Failed to generate access token")

-----------------------------------------------------------------------------
(* oauth-service: handlers.  The caller of every /oauth/token and          *)
(* /oauth/revoke request is a client that ClientAuthMiddleware has         *)
(* authenticated: c is its row id.                                         *)

(* RegisterClient                                                          *)
RegisterClient(grants, scopes) ==
    /\ Len(clients) < MaxClients
    /\ IF Len(grants) = 0
       THEN /\ resp' = Resp("RegisterClient", 400, "invalid_request",
                            "Name, redirect URIs, and grant types are required")
            /\ UNCHANGED clients
       ELSE /\ clients' = Append(clients, NewClient(Len(clients) + 1, grants, scopes))
            /\ resp' = Resp("RegisterClient", 201, "", "")
    /\ UNCHANGED << accessTokens, refreshTokens, now, rq >>
    /\ UNCHANGED << authenVars, gateVars >>

(* An allow-list refusal that answers with the code of the dispatcher's    *)
(* default branch.                                                         *)
UnauthorizedAsUnsupported(op) ==
    Resp(op, 400, "unsupported_grant_type",
         "The authorization grant type is not supported")

Unauthorized(op) ==
    Resp(op, 400, "unauthorized_client",
         "The client is not authorized to use this grant type")

(* handleClientCredentialsGrant                                            *)
handleClientCredentialsGrant(c, requestedScopes, dbErr) ==
    LET finalScopes == validateScopes(clients[c].Scopes, requestedScopes)
    IN  /\ createTokens(clients[c].ID, Nil, Nil, finalScopes,
                        "client_credentials", requestedScopes, dbErr)
        /\ resp' = IF dbErr # "" THEN ServerError("client_credentials")
                   ELSE TokenResp("client_credentials", accessTokens'[Len(accessTokens')],
                                  refreshTokens'[Len(refreshTokens')], finalScopes)

(* handlePasswordGrant                                                     *)
handlePasswordGrant(c, username, password, tenantIDStr, requestedScopes, dbErr) ==
    LET user        == authenticateUser(username, password, tenantIDStr)
        tenantID    == IF tenantIDStr = << >> THEN Nil ELSE ParseUint(tenantIDStr)
        finalScopes == validateScopes(clients[c].Scopes, requestedScopes)
    IN  IF username = "" \/ password = ""
        THEN /\ resp' = Resp("password", 400, "invalid_request",
                             "Username and password are required")
             /\ UNCHANGED << accessTokens, refreshTokens >>
        ELSE IF user = Nil
        THEN /\ resp' = Resp("password", 400, "invalid_grant",
                             "The user credentials are invalid")
             /\ UNCHANGED << accessTokens, refreshTokens >>
        ELSE IF tenantID = -1
        THEN /\ resp' = Resp("password", 400, "invalid_request",
                             "Invalid tenant ID format")
             /\ UNCHANGED << accessTokens, refreshTokens >>
        ELSE /\ createTokens(clients[c].ID, user, tenantID, finalScopes,
                             "password", requestedScopes, dbErr)
             /\ resp' = IF dbErr # "" THEN ServerError("password")
                        ELSE TokenResp("password", accessTokens'[Len(accessTokens')],
                                       refreshTokens'[Len(refreshTokens')], finalScopes)

(* IssueToken for every grant_type but refresh_token (whose handler runs   *)
(* several statements: see RefreshLookup below).                           *)
IssueToken(c, grantType, username, password, tenantIDStr, requestedScopes, dbErr) ==
    /\ c \in DOMAIN clients
    /\ grantType # << "refresh_token" >>
    /\ IF ~isGrantAllowed(clients[c].Grants, grantType)
       THEN /\ resp' = Unauthorized("IssueToken")
            /\ UNCHANGED << accessTokens, refreshTokens >>
       ELSE IF grantType = << "client_credentials" >>
       THEN handleClientCredentialsGrant(c, requestedScopes, dbErr)
       ELSE IF grantType = << "password" >>
       THEN handlePasswordGrant(c, username, password, tenantIDStr, requestedScopes, dbErr)
       ELSE /\ resp' = Resp("IssueToken", 400, "unsupported_grant_type",
                            "The authorization grant type is not supported")
            /\ UNCHANGED << accessTokens, refreshTokens >>
    /\ UNCHANGED << clients, now, rq >>
    /\ UNCHANGED << authenVars, gateVars >>


(* ---- handleRefreshTokenGrant ------------------------------------------ *)
(* The handler runs outside any transaction: SELECT the refresh token,     *)
(* SELECT the access token it was paired with, createTokens, UPDATE the    *)
(* old refresh token.  Requests of other slots may run between these.      *)

IdleRq == [ pc |-> "idle", client |-> Nil, rt |-> Nil, orig |-> Nil,
            at |-> Nil, nrt |-> Nil ]

(* Where("token = ? AND client_id = ? AND revoked = ?", v, client.ID,      *)
(* false).First(&refreshToken): the id of the row found, or Nil.           *)
findRefreshToken(rows, refreshTokenValue, clientID) ==
    LET hit == { i \in DOMAIN rows : /\ rows[i].Token = refreshTokenValue
                                     /\ rows[i].ClientID = clientID
                                     /\ rows[i].Revoked = FALSE }
    IN  IF hit = {} THEN Nil ELSE CHOOSE i \in hit : TRUE

(* A lookup that takes the first access token instead of the one the       *)
(* refresh token references.                                               *)
findAccessTokenFirst(rows, id) ==
    IF rows = << >> THEN Nil ELSE 1

(* First(&originalAccessToken, "id = ?", refreshToken.AccessTokenID)       *)
findAccessTokenByID(rows, id) ==
    LET hit == { i \in DOMAIN rows : rows[i].ID = id }
    IN  IF hit = {} THEN Nil ELSE CHOOSE i \in hit : TRUE

(* A handler that forgets the UPDATE of the exchanged refresh token.       *)
markRevokedSkipped(rows, id) == rows

(* Model(&refreshToken).Update("revoked", true)                            *)
markRevoked(rows, id) ==
    [ i \in DOMAIN rows |->
        IF rows[i].ID = id THEN [ rows[i] EXCEPT !.Revoked = TRUE ] ELSE rows[i] ]

(* History: the outcome ok of an exchange in which client clientID         *)
(* presented the string tok at time time.                                  *)
recordExchange(rows, tok, clientID, time, ok) ==
    [ i \in DOMAIN rows |->
        IF /\ rows[i].Token = tok
           /\ rows[i].ClientID = clientID
           /\ ~rows[i].byClient
           /\ ~IsExpired(rows[i], time)
           /\ Len(rows[i].hist) < MaxHist
        THEN [ rows[i] EXCEPT !.hist = Append(@, ok) ]
        ELSE rows[i] ]

InvalidGrant(desc) == Resp("refresh_token", 400, "invalid_grant", desc)

(* IssueToken with grant_type=refresh_token, up to and including the two   *)
(* SELECTs of handleRefreshTokenGrant.                                     *)
RefreshLookup(p, c, refreshTokenValue) ==
    LET rt   == findRefreshToken(refreshTokens, refreshTokenValue, clients[c].ID)
        orig == IF rt = Nil THEN Nil
                ELSE findAccessTokenByID(accessTokens, refreshTokens[rt].AccessTokenID)
        failed(r) == /\ resp' = r
                     /\ refreshTokens' = recordExchange(refreshTokens, refreshTokenValue,
                                                        clients[c].ID, now, FALSE)
                     /\ UNCHANGED rq
    IN  /\ c \in DOMAIN clients
        /\ rq[p].pc = "idle"
        /\ IF ~isGrantAllowed(clients[c].Grants, << "refresh_token" >>)
           THEN failed(Unauthorized("refresh_token"))
           ELSE IF refreshTokenValue = EmptyTok
           THEN failed(Resp("refresh_token", 400, "invalid_request",
                            "Refresh token is required"))
           ELSE IF rt = Nil
           THEN failed(InvalidGrant("The refresh token is invalid"))
           ELSE IF IsExpired(refreshTokens[rt], now)
           THEN failed(InvalidGrant("The refresh token has expired"))
           ELSE IF orig = Nil
           THEN failed(Resp("refresh_token", 500, "server_error",
                            "Failed to process refresh token"))
           ELSE /\ rq' = [ rq EXCEPT ![p] = [ IdleRq EXCEPT !.pc = "create",
                               !.client = clients[c].ID, !.rt = rt, !.orig = orig ] ]
                /\ UNCHANGED << refreshTokens, resp >>
        /\ UNCHANGED << clients, accessTokens, now >>
        /\ UNCHANGED << authenVars, gateVars >>

(* createTokens(client.ID, original.UserID, original.TenantID,             *)
(* original.Scopes); on its error the handler answers server_error and     *)
(* returns before the old refresh token is revoked.                        *)
RefreshCreate(p, dbErr) ==
    LET o == accessTokens[rq[p].orig]
    IN  /\ rq[p].pc = "create"
        /\ createTokens(rq[p].client, o.UserID, o.TenantID, o.Scopes,
                        "refresh_token", << >>, dbErr)
        /\ IF dbErr # ""
           THEN /\ rq' = [ rq EXCEPT ![p] = IdleRq ]
                /\ resp' = ServerError("refresh_token")
           ELSE /\ rq' = [ rq EXCEPT ![p].pc = "revoke", ![p].at = Len(accessTokens'),
                                     ![p].nrt = Len(refreshTokens') ]
                /\ UNCHANGED resp
        /\ UNCHANGED << clients, now >>
        /\ UNCHANGED << authenVars, gateVars >>

(* Mark the old refresh token revoked and answer 200 with the new pair.    *)
(* The result of Update("revoked", true) is discarded: when the UPDATE     *)
(* returns an error (dbErr # "") the row is left as it was and the handler *)
(* answers 200 all the same.                                               *)
RefreshRevoke(p, dbErr) ==
    LET old == refreshTokens[rq[p].rt]
    IN  /\ rq[p].pc = "revoke"
        /\ refreshTokens' =
             LET rows == IF dbErr = "" THEN markRevoked(refreshTokens, old.ID)
                         ELSE refreshTokens
             IN  [ i \in DOMAIN rows |->
                     IF i = rq[p].rt /\ ~rows[i].byClient /\ Len(rows[i].hist) < MaxHist
                     THEN [ rows[i] EXCEPT !.hist = Append(@, TRUE) ]
                     ELSE rows[i] ]
        /\ resp' = TokenResp("refresh_token", accessTokens[rq[p].at],
                             refreshTokens[rq[p].nrt], accessTokens[rq[p].at].Scopes)
        /\ rq' = [ rq EXCEPT ![p] = IdleRq ]
        /\ UNCHANGED << clients, accessTokens, now >>
        /\ UNCHANGED << authenVars, gateVars >>

(* ---- RevokeToken ------------------------------------------------------ *)
(* Model(&T{}).Where("token = ? AND client_id = ?", token, client.ID).     *)
(* Update("revoked", true)                                                 *)
(* An UPDATE that leaves client_id out of its WHERE clause.                 *)
revokeWhereAnyClient(rows, token, clientID) ==
    [ i \in DOMAIN rows |->
        IF rows[i].Token = token
        THEN [ rows[i] EXCEPT !.Revoked = TRUE ] ELSE rows[i] ]

(* An UPDATE that flips the flag instead of setting it.                    *)
revokeWhereFlipped(rows, token, clientID) ==
    [ i \in DOMAIN rows |->
        IF rows[i].Token = token /\ rows[i].ClientID = clientID
        THEN [ rows[i] EXCEPT !.Revoked = ~@ ] ELSE rows[i] ]

revokeWhere(rows, token, clientID) ==
    [ i \in DOMAIN rows |->
        IF rows[i].Token = token /\ rows[i].ClientID = clientID
        THEN [ rows[i] EXCEPT !.Revoked = TRUE ] ELSE rows[i] ]

rowsAffected(rows, token, clientID) ==
    Cardinality({ i \in DOMAIN rows :
                    rows[i].Token = token /\ rows[i].ClientID = clientID })

(* The access_tokens table after the first UPDATE of RevokeToken, which    *)
(* runs for the hints "access_token" and "".                               *)
revokedAccessTokens(ats, token, clientID, tokenTypeHint) ==
    IF tokenTypeHint = "access_token" \/ tokenTypeHint = ""
    THEN revokeWhere(ats, token, clientID)
    ELSE ats

(* A revocation that also revokes the refresh token paired with the       *)
(* access token it revoked.                                                *)
revokedRefreshTokensCascading(ats, rts, token, clientID, tokenTypeHint) ==
    [ j \in DOMAIN rts |->
        IF \E i \in DOMAIN ats : /\ ats[i].Token = token
                                  /\ ats[i].ClientID = clientID
                                  /\ rts[j].AccessTokenID = ats[i].ID
        THEN [ rts[j] EXCEPT !.Revoked = TRUE ] ELSE rts[j] ]

(* The refresh_tokens table after the second UPDATE, which runs for the    *)
(* hints "refresh_token" and "" unless the first UPDATE affected a row.    *)
revokedRefreshTokens(ats, rts, token, clientID, tokenTypeHint) ==
    LET tryAccess  == tokenTypeHint = "access_token" \/ tokenTypeHint = ""
        success    == tryAccess /\ rowsAffected(ats, token, clientID) > 0
        tryRefresh == (tokenTypeHint = "refresh_token" \/ tokenTypeHint = "") /\ ~success
    IN  IF tryRefresh
        THEN LET rows == revokeWhere(rts, token, clientID)
             IN  [ i \in DOMAIN rows |->
                     IF rows[i].Token = token /\ rows[i].ClientID = clientID
                     THEN [ rows[i] EXCEPT !.byClient = TRUE ]
                     ELSE rows[i] ]
        ELSE rts

RevokeToken(c, token, tokenTypeHint) ==
    /\ c \in DOMAIN clients
    /\ IF token = EmptyTok
       THEN /\ resp' = Resp("RevokeToken", 400, "invalid_request",
                            "Token parameter is required")
            /\ UNCHANGED << accessTokens, refreshTokens >>
       ELSE /\ accessTokens' = revokedAccessTokens(accessTokens, token,
                                                   clients[c].ID, tokenTypeHint)
            /\ refreshTokens' = revokedRefreshTokens(accessTokens, refreshTokens, token,
                                                     clients[c].ID, tokenTypeHint)
            /\ resp' = [ Resp("RevokeToken", 200, "", "") EXCEPT
                           !.access = token, !.by = clients[c].ID ]
    /\ UNCHANGED << clients, now, rq >>
    /\ UNCHANGED << authenVars, gateVars >>

(* ---- ValidateToken (introspection) ------------------------------------ *)
(* Where("token = ?", token).First(&accessToken), then                     *)
(* isValid := !accessToken.IsExpired() && !accessToken.Revoked             *)
introspectActive(rows, token, time) ==
    \E i \in DOMAIN rows :
        /\ rows[i].Token = token
        /\ ~IsExpired(rows[i], time) /\ ~rows[i].Revoked

ValidateToken(token) ==
    /\ IF token = EmptyTok
       THEN resp' = Resp("ValidateToken", 400, "invalid_request",
                         "Token parameter is required")
       ELSE resp' = [ Resp("ValidateToken", 200, "", "") EXCEPT
                        !.active = introspectActive(accessTokens, token, now),
                        !.access = token ]
    /\ UNCHANGED << clients, accessTokens, refreshTokens, now, rq >>
    /\ UNCHANGED << authenVars, gateVars >>

(* ---- BearerTokenMiddleware -------------------------------------------- *)
(* Where("token = ? AND revoked = ?", tokenString, false).First(&t), then  *)
(* t.IsExpired() rejects.                                                  *)
bearerAccepts(rows, tokenString, time) ==
    \E i \in DOMAIN rows :
        /\ rows[i].Token = tokenString /\ rows[i].Revoked = FALSE
        /\ ~IsExpired(rows[i], time)

BearerTokenMiddleware(tokenString) ==
    /\ IF bearerAccepts(accessTokens, tokenString, now)
       THEN resp' = [ Resp("Bearer", 200, "", "") EXCEPT !.access = tokenString ]
       ELSE resp' = [ Resp("Bearer", 401, "invalid_token", "") EXCEPT
                        !.access = tokenString ]
    /\ UNCHANGED << clients, accessTokens, refreshTokens, now, rq >>
    /\ UNCHANGED << authenVars, gateVars >>

(* ---- the clock --------------------------------------------------------- *)
Tick ==
    /\ now < MaxTime
    /\ now' = now + 1
    /\ UNCHANGED << clients, accessTokens, refreshTokens, rq, resp >>
    /\ UNCHANGED << authenVars, gateVars >>


-----------------------------------------------------------------------------
(* authen-service: rows.                                                   *)

(* model.User.  TenantID is the default-tenant pointer that Login reads;   *)
(* Register leaves it NULL.  ctx is a history field: whether a JWT with    *)
(* tenant context has been issued to the user.                             *)
NewUser(id, email) ==
    [ ID |-> id, Email |-> email, TenantID |-> Nil, ctx |-> FALSE ]

(* Tenant, as CreateTenant fills it; name carries a unique index           *)
NewTenant(id, name, ownerID) ==
    [ ID |-> id, Name |-> name, OwnerID |-> ownerID, Active |-> TRUE ]

(* model.UserTenant; Deleted stands for DeletedAt IS NOT NULL              *)
NewUserTenant(id, userID, tenantID, role, isDefault) ==
    [ ID |-> id, UserID |-> userID, TenantID |-> tenantID, Role |-> role,
      IsDefault |-> isDefault, Active |-> TRUE, Deleted |-> FALSE ]

(* jwtutil.UserClaims of an issued JWT; NoToken when none was issued       *)
NoToken == [ Email |-> "", UserID |-> Nil, TenantID |-> Nil, TenantName |-> "",
             Role |-> "" ]

(* GenerateTokenWithTenant(email, userID, tenantID, tenantName, role)      *)
GenerateTokenWithTenant(email, userID, tenantID, tenantName, role) ==
    [ Email |-> email, UserID |-> userID, TenantID |-> tenantID,
      TenantName |-> tenantName, Role |-> role ]

(* GenerateToken(email, userID)                                            *)
GenerateToken(email, userID) == GenerateTokenWithTenant(email, userID, Nil, "", "")

(* The response of the authen-service: the status and the claims of the   *)
(* token in the body.  For the token-issuing handlers and SetDefaultTenant *)
(* user and tenant record the caller and the tenant_id of the request      *)
(* (<< >> when absent, << t >> when supplied).                             *)
(* authed tells whether the caller passed authentication (the JWT check of *)
(* AuthMiddleware, or the credential check of Login).                      *)
AResp(op, status, user, tenant, token, authed) ==
    [ op |-> op, status |-> status, user |-> user, tenant |-> tenant,
      token |-> token, authed |-> authed ]

NoAResp == AResp("none", 0, Nil, << >>, NoToken, FALSE)

IdleTx == [ pc |-> "idle", user |-> Nil, tenant |-> Nil,
            row |-> NewUserTenant(Nil, Nil, Nil, "", FALSE),
            cleared |-> {} ]

-----------------------------------------------------------------------------
(* authen-service: queries.  Every query on user_tenants carries           *)
(* deleted_at IS NULL (gorm soft delete); First orders by primary key.     *)

MinOf(S) == CHOOSE i \in S : \A j \in S : i <= j

firstOf(hit) == IF hit = {} THEN Nil ELSE MinOf(hit)

(* Where("user_id = ? AND tenant_id = ? AND active = ?", u, t, true).First *)
firstActiveMembership(rows, u, t) ==
    firstOf({ i \in DOMAIN rows : /\ rows[i].UserID = u /\ rows[i].TenantID = t
                                  /\ rows[i].Active /\ ~rows[i].Deleted })

(* Where("user_id = ? AND tenant_id = ? AND role IN ('owner','admin')").First *)
firstManagerMembership(rows, u, t) ==
    firstOf({ i \in DOMAIN rows : /\ rows[i].UserID = u /\ rows[i].TenantID = t
                                  /\ rows[i].Role \in { "owner", "admin" }
                                  /\ ~rows[i].Deleted })

(* Where("user_id = ? AND tenant_id = ?", u, t).First                      *)
firstMembership(rows, u, t) ==
    firstOf({ i \in DOMAIN rows : /\ rows[i].UserID = u /\ rows[i].TenantID = t
                                  /\ ~rows[i].Deleted })

(* Where("email = ?", email).First(&user)                                  *)
findUserByEmail(rows, email) ==
    firstOf({ i \in DOMAIN rows : rows[i].Email = email })

(* the live membership rows of a user                                      *)
rowsOfUser(rows, u) ==
    { i \in DOMAIN rows : rows[i].UserID = u /\ ~rows[i].Deleted }

(* A SetDefaultTenant transaction that has run its UPDATE holds the row    *)
(* locks of the user's memberships until it commits.                       *)
Locked(u) == \E p \in Slots : tx[p].pc = "save" /\ tx[p].user = u

(* History: a JWT with tenant context was issued to u.                     *)
gotContext(rows, u) ==
    [ i \in DOMAIN rows |->
        IF rows[i].ID = u THEN [ rows[i] EXCEPT !.ctx = TRUE ] ELSE rows[i] ]

(* middleware.RequireTenantContext: the caller's JWT carries a tenant id   *)
RequireTenantContext(u) == users[u].ctx

-----------------------------------------------------------------------------
(* authen-service: handlers.  The caller u of a route below /api is the    *)
(* user id in the claims of a JWT that AuthMiddleware has verified.        *)

(* Register (auth_handler.go)                                              *)
Register(email) ==
    /\ IF email = ""
       THEN /\ aresp' = AResp("Register", 400, Nil, << >>, NoToken, FALSE)
            /\ UNCHANGED users
       ELSE IF findUserByEmail(users, email) # Nil
       THEN /\ aresp' = AResp("Register", 409, Nil, << >>, NoToken, FALSE)
            /\ UNCHANGED users
       ELSE /\ Len(users) < Cardinality(UserIds)
            /\ users' = Append(users, NewUser(Len(users) + 1, email))
            /\ aresp' = AResp("Register", 201, Len(users) + 1, << >>, NoToken, FALSE)
    /\ UNCHANGED << tenants, userTenants, tx >>
    /\ UNCHANGED << oauthVars, gateVars >>

(* Select("name").First(&tenant, id) with its error ignored, and           *)
(* Preload("Tenant"): the name of the tenant row, "" when there is none.   *)
tenantNameOf(rows, id) ==
    IF id \in DOMAIN rows THEN rows[id].Name ELSE ""

(* Login (auth_handler.go)                                                 *)
Login(email, passwordOk, tenantID) ==
    LET u == findUserByEmail(users, email)
        m == IF u = Nil \/ tenantID = << >> THEN Nil
             ELSE firstActiveMembership(userTenants, u, tenantID[1])
        d == IF u = Nil THEN Nil ELSE users[u].TenantID
        r == IF u = Nil \/ d = Nil THEN Nil ELSE firstMembership(userTenants, u, d)
    IN  /\ IF u = Nil \/ ~passwordOk
           THEN /\ aresp' = AResp("Login", 401, u, tenantID, NoToken, FALSE)
                /\ UNCHANGED users
           ELSE IF tenantID # << >>
           THEN IF m = Nil
                THEN /\ aresp' = AResp("Login", 403, u, tenantID, NoToken, TRUE)
                     /\ UNCHANGED users
                ELSE /\ aresp' = AResp("Login", 200, u, tenantID,
                            GenerateTokenWithTenant(email, u, tenantID[1],
                                tenantNameOf(tenants, tenantID[1]), userTenants[m].Role),
                            TRUE)
                     /\ users' = gotContext(users, u)
           ELSE IF d # Nil
           THEN /\ aresp' = AResp("Login", 200, u, tenantID,
                       GenerateTokenWithTenant(email, u, d, tenantNameOf(tenants, d),
                           IF r = Nil THEN "" ELSE userTenants[r].Role), TRUE)
                /\ users' = gotContext(users, u)
           ELSE /\ aresp' = AResp("Login", 200, u, tenantID, GenerateToken(email, u), TRUE)
                /\ UNCHANGED users
        /\ UNCHANGED << tenants, userTenants, tx >>
        /\ UNCHANGED << oauthVars, gateVars >>

(* checkPasswordHash(password, user.Password): every registered identity   *)
(* has the password "right"                                                *)
checkPasswordHash(password) == password = "right"

(* Login (tenant_handler.go, the definition that lives with GetProfile and *)
(* ChangePassword, which the router needs): the request struct has email   *)
(* and password only, so a tenant_id in the body is dropped by Bind and    *)
(* the JWT is generated without tenant information.                        *)
LoginWithoutTenant(email, password, tenantID) ==
    LET u == findUserByEmail(users, email)
    IN  /\ IF email = "" \/ password = ""
           THEN aresp' = AResp("Login", 400, Nil, tenantID, NoToken, FALSE)
           ELSE IF u = Nil \/ ~checkPasswordHash(password)
           THEN aresp' = AResp("Login", 401, u, tenantID, NoToken, FALSE)
           ELSE aresp' = AResp("Login", 200, u, tenantID, GenerateToken(email, u), TRUE)
        /\ UNCHANGED << users, tenants, userTenants, tx >>
        /\ UNCHANGED << oauthVars, gateVars >>

(* SwitchTenant                                                            *)
SwitchTenant(u, tenantID) ==
    LET m == firstActiveMembership(userTenants, u, tenantID)
    IN  /\ u \in DOMAIN users
        /\ IF tenantID = 0
           THEN /\ aresp' = AResp("SwitchTenant", 400, u, << tenantID >>, NoToken, TRUE)
                /\ UNCHANGED users
           ELSE IF m = Nil
           THEN /\ aresp' = AResp("SwitchTenant", 403, u, << tenantID >>, NoToken, TRUE)
                /\ UNCHANGED users
           ELSE IF tenantID \notin DOMAIN tenants
           THEN /\ aresp' = AResp("SwitchTenant", 404, u, << tenantID >>, NoToken, TRUE)
                /\ UNCHANGED users
           ELSE /\ aresp' = AResp("SwitchTenant", 200, u, << tenantID >>,
                       GenerateTokenWithTenant(users[u].Email, u, tenantID,
                           tenants[tenantID].Name, userTenants[m].Role), TRUE)
                /\ users' = gotContext(users, u)
        /\ UNCHANGED << tenants, userTenants, tx >>
        /\ UNCHANGED << oauthVars, gateVars >>

(* SelectTenant: validates the bearer JWT itself; validToken tells whether *)
(* jwtutil.ValidateToken accepts it.                                       *)
SelectTenant(u, validToken, tenantID) ==
    LET m == firstActiveMembership(userTenants, u, tenantID)
    IN  /\ u \in DOMAIN users
        /\ IF ~validToken
           THEN /\ aresp' = AResp("SelectTenant", 401, u, << tenantID >>, NoToken, FALSE)
                /\ UNCHANGED users
           ELSE IF m = Nil
           THEN /\ aresp' = AResp("SelectTenant", 403, u, << tenantID >>, NoToken, TRUE)
                /\ UNCHANGED users
           ELSE /\ aresp' = AResp("SelectTenant", 200, u, << tenantID >>,
                       GenerateTokenWithTenant(users[u].Email, u, tenantID,
                           tenantNameOf(tenants, tenantID), userTenants[m].Role), TRUE)
                /\ users' = gotContext(users, u)
        /\ UNCHANGED << tenants, userTenants, tx >>
        /\ UNCHANGED << oauthVars, gateVars >>

(* CreateTenant: one transaction inserts the tenant and the creator's      *)
(* membership (role owner, is_default true).  The INSERT of a tenant whose *)
(* name is taken fails on the unique index and the transaction is rolled   *)
(* back.                                                                   *)
(* dbErr names the statement of the transaction that returns an error:    *)
(* "begin", "tenant", "membership", "commit", or "" when none does.  Every *)
(* failure answers 500; tx.Rollback() or the failed Commit discards the    *)
(* rows inserted so far.                                                   *)
tenantsAfterCreateUnrolled(rows, name, u, err) ==
    IF err \in { "", "membership", "commit" }
    THEN Append(rows, NewTenant(Len(rows) + 1, name, u))
    ELSE rows

(* the tenants table once the transaction has ended                        *)
tenantsAfterCreate(rows, name, u, err) ==
    IF err = ""
    THEN Append(rows, NewTenant(Len(rows) + 1, name, u))
    ELSE rows

(* the user_tenants table once the transaction has ended                   *)
membershipsAfterCreate(rows, u, tenantID, err) ==
    IF err = ""
    THEN Append(rows, NewUserTenant(Len(rows) + 1, u, tenantID, "owner", TRUE))
    ELSE rows

(* the statement of CreateTenant that fails first, "" when none does       *)
createTenantError(name, dbErr) ==
    IF dbErr = "begin" THEN "begin"
    ELSE IF \E t \in DOMAIN tenants : tenants[t].Name = name THEN "tenant"
    ELSE dbErr

CreateTenant(u, name, dbErr) ==
    LET err == createTenantError(name, dbErr)
    IN  /\ u \in DOMAIN users
        /\ IF name = ""
           THEN /\ aresp' = AResp("CreateTenant", 400, Nil, << >>, NoToken, TRUE)
                /\ UNCHANGED << users, tenants, userTenants, tx >>
           ELSE /\ err \notin { "begin", "tenant" } =>
                      Len(tenants) < MaxTenants /\ Len(userTenants) < MaxStored
                /\ tenants' = tenantsAfterCreate(tenants, name, u, err)
                /\ userTenants' = membershipsAfterCreate(userTenants, u,
                                                         Len(tenants) + 1, err)
                /\ UNCHANGED << users, tx >>
                /\ aresp' = IF err = ""
                            THEN AResp("CreateTenant", 201, Nil, << Len(tenants) + 1 >>,
                                       NoToken, TRUE)
                            ELSE AResp("CreateTenant", 500, Nil, << >>, NoToken, TRUE)
        /\ UNCHANGED << oauthVars, gateVars >>

(* AddUserToTenant (behind RequireTenantContext)                           *)
AddUserToTenant(u, tenantID, userEmail, reqRole) ==
    LET role     == IF reqRole = "" THEN "member" ELSE reqRole
        perm     == firstManagerMembership(userTenants, u, tenantID)
        user     == findUserByEmail(users, userEmail)
        existing == IF user = Nil THEN Nil
                    ELSE firstMembership(userTenants, user, tenantID)
        answer(status) == /\ aresp' = AResp("AddUserToTenant", status, Nil, << >>, NoToken, TRUE)
                          /\ UNCHANGED << users, userTenants, tx >>
    IN  /\ u \in DOMAIN users
        /\ IF ~RequireTenantContext(u) THEN answer(403)
           ELSE IF tenantID = 0 \/ userEmail = "" THEN answer(400)
           ELSE IF perm = Nil THEN answer(403)
           ELSE IF user = Nil THEN answer(404)
           ELSE IF existing # Nil /\ userTenants[existing].Role = role THEN answer(200)
           ELSE IF existing # Nil
           THEN /\ ~Locked(user)
                /\ userTenants' = [ userTenants EXCEPT ![existing].Role = role ]
                /\ UNCHANGED << users, tx >>
                /\ aresp' = AResp("AddUserToTenant", 200, Nil, << >>, NoToken, TRUE)
           ELSE /\ Len(userTenants) < MaxStored
                /\ userTenants' = Append(userTenants,
                       NewUserTenant(Len(userTenants) + 1, user, tenantID, role, FALSE))
                /\ UNCHANGED << users, tx >>
                /\ aresp' = AResp("AddUserToTenant", 201, Nil, << >>, NoToken, TRUE)
        /\ UNCHANGED tenants
        /\ UNCHANGED << oauthVars, gateVars >>

(* AddUserToTenant as the two database round trips it makes when the user  *)
(* is not yet a member: the SELECT of an existing membership, and later    *)
(* the INSERT.  No transaction and no lock spans them; slot p holds the    *)
(* request between the two.                                                *)
AddUserBegin(p, u, tenantID, userEmail, reqRole) ==
    LET role     == IF reqRole = "" THEN "member" ELSE reqRole
        perm     == firstManagerMembership(userTenants, u, tenantID)
        user     == findUserByEmail(users, userEmail)
        existing == IF user = Nil THEN Nil
                    ELSE firstMembership(userTenants, user, tenantID)
        answer(status) == /\ aresp' = AResp("AddUserToTenant", status, Nil, << >>, NoToken, TRUE)
                          /\ UNCHANGED << users, userTenants, tx >>
    IN  /\ u \in DOMAIN users
        /\ tx[p].pc = "idle"
        /\ IF ~RequireTenantContext(u) THEN answer(403)
           ELSE IF tenantID = 0 \/ userEmail = "" THEN answer(400)
           ELSE IF perm = Nil THEN answer(403)
           ELSE IF user = Nil THEN answer(404)
           ELSE IF existing # Nil /\ userTenants[existing].Role = role THEN answer(200)
           ELSE IF existing # Nil
           THEN /\ ~Locked(user)
                /\ userTenants' = [ userTenants EXCEPT ![existing].Role = role ]
                /\ UNCHANGED << users, tx >>
                /\ aresp' = AResp("AddUserToTenant", 200, Nil, << >>, NoToken, TRUE)
           ELSE /\ tx' = [ tx EXCEPT ![p] = [ IdleTx EXCEPT !.pc = "insert",
                               !.user = user, !.tenant = tenantID,
                               !.row = NewUserTenant(Nil, user, tenantID, role, FALSE) ] ]
                /\ UNCHANGED << users, userTenants, aresp >>
        /\ UNCHANGED tenants
        /\ UNCHANGED << oauthVars, gateVars >>

(* database.GetDB().Create(&userTenant): user_tenants has no unique index  *)
(* on (user_id, tenant_id), so the INSERT succeeds whatever the table      *)
(* holds by now.                                                           *)
AddUserInsert(p) ==
    /\ tx[p].pc = "insert"
    /\ Len(userTenants) < MaxStored
    /\ userTenants' = Append(userTenants,
           [ tx[p].row EXCEPT !.ID = Len(userTenants) + 1 ])
    /\ tx' = [ tx EXCEPT ![p] = IdleTx ]
    /\ aresp' = AResp("AddUserToTenant", 201, Nil, << >>, NoToken, TRUE)
    /\ UNCHANGED << users, tenants >>
    /\ UNCHANGED << oauthVars, gateVars >>

(* Where("user_id = ? AND tenant_id = ?").Delete(&UserTenant{}): soft      *)
(* delete of every live row of the pair                                    *)
softDelete(rows, u, t) ==
    [ i \in DOMAIN rows |->
        IF rows[i].UserID = u /\ rows[i].TenantID = t /\ ~rows[i].Deleted
        THEN [ rows[i] EXCEPT !.Deleted = TRUE ] ELSE rows[i] ]

(* Model(&UserTenant{}).Where("user_id = ?", u).Order("created_at asc").   *)
(* Limit(1).Update("is_default", true).  Whether ORDER BY / LIMIT reach    *)
(* the UPDATE statement depends on the SQL dialect of the build: limited   *)
(* tells whether they do (oldest row only) or not (every row of the user). *)
promoteDefault(rows, u, limited) ==
    LET live == rowsOfUser(rows, u)
        hit  == IF live = {} THEN {} ELSE IF limited THEN { MinOf(live) } ELSE live
    IN  [ i \in DOMAIN rows |->
            IF i \in hit THEN [ rows[i] EXCEPT !.IsDefault = TRUE ] ELSE rows[i] ]

(* tenant.OwnerID == uint(targetUserID)                                    *)
isTenantOwnerByTenantID(tenant, targetUserID) == tenant.ID = targetUserID

isTenantOwner(tenant, targetUserID) == tenant.OwnerID = targetUserID

(* RemoveUserFromTenant (behind RequireTenantContext)                      *)
RemoveUserFromTenant(u, tenantID, targetUserID, limited) ==
    LET perm == firstManagerMembership(userTenants, u, tenantID)
        hit  == { i \in rowsOfUser(userTenants, targetUserID) :
                    userTenants[i].TenantID = tenantID }
        answer(status) == /\ aresp' = AResp("RemoveUserFromTenant", status, Nil, << >>, NoToken, TRUE)
                          /\ UNCHANGED << users, userTenants, tx >>
    IN  /\ u \in DOMAIN users
        /\ IF ~RequireTenantContext(u) THEN answer(403)
           ELSE IF perm = Nil THEN answer(403)
           ELSE IF tenantID \notin DOMAIN tenants THEN answer(404)
           ELSE IF isTenantOwner(tenants[tenantID], targetUserID) THEN answer(403)
           ELSE IF hit = {} THEN answer(404)
           ELSE /\ ~Locked(targetUserID)
                /\ userTenants' = promoteDefault(
                       softDelete(userTenants, targetUserID, tenantID),
                       targetUserID, limited)
                /\ UNCHANGED << users, tx >>
                /\ aresp' = AResp("RemoveUserFromTenant", 200, Nil, << >>, NoToken, TRUE)
        /\ UNCHANGED tenants
        /\ UNCHANGED << oauthVars, gateVars >>

(* ---- SetDefaultTenant -------------------------------------------------- *)
(* One transaction: SELECT the caller's active membership, UPDATE every    *)
(* membership of the caller to is_default = false, Save the selected row   *)
(* with is_default = true, COMMIT.  The UPDATE takes the row locks, so a   *)
(* second transaction of the same user waits for the first to commit; the  *)
(* writes become visible to other requests at COMMIT.                      *)

(* Begin and SELECT                                                        *)
SetDefaultBegin(p, u, tenantID) ==
    LET m == firstActiveMembership(userTenants, u, tenantID)
    IN  /\ u \in DOMAIN users
        /\ tx[p].pc = "idle"
        /\ IF tenantID = 0
           THEN /\ aresp' = AResp("SetDefaultTenant", 400, u, << tenantID >>, NoToken, TRUE)
                /\ UNCHANGED tx
           ELSE IF m = Nil
           THEN /\ aresp' = AResp("SetDefaultTenant", 403, u, << tenantID >>, NoToken, TRUE)
                /\ UNCHANGED tx
           ELSE /\ tx' = [ tx EXCEPT ![p] = [ IdleTx EXCEPT !.pc = "clear", !.user = u,
                               !.tenant = tenantID, !.row = userTenants[m] ] ]
                /\ UNCHANGED aresp
        /\ UNCHANGED << users, tenants, userTenants >>
        /\ UNCHANGED << oauthVars, gateVars >>

(* UPDATE user_tenants SET is_default = false WHERE user_id = ?            *)
SetDefaultClear(p) ==
    /\ tx[p].pc = "clear"
    /\ ~Locked(tx[p].user)
    /\ tx' = [ tx EXCEPT ![p].pc = "save",
                         ![p].cleared = rowsOfUser(userTenants, tx[p].user) ]
    /\ UNCHANGED << users, tenants, userTenants, aresp >>
    /\ UNCHANGED << oauthVars, gateVars >>

(* tx.Save(&userTenant) writes every column of the row read by the SELECT. *)
(* When that row was soft-deleted in the meantime the UPDATE matches no    *)
(* row; upsert tells whether Save then falls back to INSERT ... ON         *)
(* CONFLICT DO UPDATE, which restores the row.                             *)
saveDefault(rows, row, upsert) ==
    [ i \in DOMAIN rows |->
        IF rows[i].ID = row.ID /\ (~rows[i].Deleted \/ upsert)
        THEN [ row EXCEPT !.IsDefault = TRUE ] ELSE rows[i] ]

clearDefault(rows, cleared) ==
    [ i \in DOMAIN rows |->
        IF i \in cleared THEN [ rows[i] EXCEPT !.IsDefault = FALSE ] ELSE rows[i] ]

(* Save and COMMIT                                                         *)
SetDefaultCommit(p, upsert) ==
    LET u == tx[p].user
    IN  /\ tx[p].pc = "save"
        /\ userTenants' = saveDefault(clearDefault(userTenants, tx[p].cleared),
                                      tx[p].row, upsert)
        /\ tx' = [ tx EXCEPT ![p] = IdleTx ]
        /\ aresp' = AResp("SetDefaultTenant", 200, u, << tx[p].tenant >>, NoToken, TRUE)
        /\ UNCHANGED << users, tenants >>
        /\ UNCHANGED << oauthVars, gateVars >>

-----------------------------------------------------------------------------
(* authen-service: the earlier tenant handlers (tenant_handler.go, first   *)
(* part), which keep the user's default tenant in users.tenant_id, the     *)
(* column that Login (auth_handler.go) reads.                              *)

setUserTenant(rows, u, tenantID) ==
    [ i \in DOMAIN rows |->
        IF rows[i].ID = u THEN [ rows[i] EXCEPT !.TenantID = tenantID ] ELSE rows[i] ]

(* CreateTenant, earlier version: one transaction inserts the tenant and   *)
(* the owner membership and sets users.tenant_id.                          *)
CreateTenantEarlier(u, name) ==
    /\ u \in DOMAIN users
    /\ IF name = ""
       THEN /\ aresp' = AResp("CreateTenant", 400, Nil, << >>, NoToken, TRUE)
            /\ UNCHANGED << users, tenants, userTenants >>
       ELSE IF \E t \in DOMAIN tenants : tenants[t].Name = name
       THEN /\ aresp' = AResp("CreateTenant", 500, Nil, << >>, NoToken, TRUE)
            /\ UNCHANGED << users, tenants, userTenants >>
       ELSE /\ Len(tenants) < MaxTenants
            /\ Len(userTenants) < MaxStored
            /\ tenants' = Append(tenants, NewTenant(Len(tenants) + 1, name, u))
            /\ userTenants' = Append(userTenants,
                   NewUserTenant(Len(userTenants) + 1, u, Len(tenants) + 1, "owner", TRUE))
            /\ users' = setUserTenant(users, u, Len(tenants) + 1)
            /\ aresp' = AResp("CreateTenant", 201, Nil, << Len(tenants) + 1 >>,
                              NoToken, TRUE)
    /\ UNCHANGED tx
    /\ UNCHANGED << oauthVars, gateVars >>

(* SetDefaultTenant, earlier version: one transaction clears is_default on *)
(* the caller's memberships, saves the selected one with is_default true   *)
(* and sets users.tenant_id.                                               *)
SetDefaultTenantEarlier(u, tenantID) ==
    LET m == firstActiveMembership(userTenants, u, tenantID)
    IN  /\ u \in DOMAIN users
        /\ IF tenantID = 0
           THEN /\ aresp' = AResp("SetDefaultTenant", 400, u, << tenantID >>, NoToken, TRUE)
                /\ UNCHANGED << users, userTenants >>
           ELSE IF m = Nil
           THEN /\ aresp' = AResp("SetDefaultTenant", 403, u, << tenantID >>, NoToken, TRUE)
                /\ UNCHANGED << users, userTenants >>
           ELSE /\ userTenants' =
                     [ i \in DOMAIN userTenants |->
                         IF i = m THEN [ userTenants[i] EXCEPT !.IsDefault = TRUE ]
                         ELSE IF i \in rowsOfUser(userTenants, u)
                         THEN [ userTenants[i] EXCEPT !.IsDefault = FALSE ]
                         ELSE userTenants[i] ]
                /\ users' = setUserTenant(users, u, tenantID)
                /\ aresp' = AResp("SetDefaultTenant", 200, u, << tenantID >>, NoToken, TRUE)
        /\ UNCHANGED << tenants, tx >>
        /\ UNCHANGED << oauthVars, gateVars >>

(* RemoveUserFromTenant, earlier version, up to and including the DELETE   *)
(* of the membership.  No transaction spans it and the statements that     *)
(* follow; slot p holds the request between them.                          *)
RemoveEarlierDelete(p, u, tenantID, targetUserID) ==
    LET perm == firstManagerMembership(userTenants, u, tenantID)
        hit  == { i \in rowsOfUser(userTenants, targetUserID) :
                    userTenants[i].TenantID = tenantID }
        answer(status) == /\ aresp' = AResp("RemoveUserFromTenant", status, Nil, << >>,
                                            NoToken, TRUE)
                          /\ UNCHANGED << userTenants, tx >>
    IN  /\ u \in DOMAIN users
        /\ tx[p].pc = "idle"
        /\ IF ~RequireTenantContext(u) THEN answer(403)
           ELSE IF perm = Nil THEN answer(403)
           ELSE IF tenantID \notin DOMAIN tenants THEN answer(404)
           ELSE IF isTenantOwner(tenants[tenantID], targetUserID) THEN answer(403)
           ELSE IF hit = {} THEN answer(404)
           ELSE /\ userTenants' = softDelete(userTenants, targetUserID, tenantID)
                /\ tx' = [ tx EXCEPT ![p] = [ IdleTx EXCEPT !.pc = "reset",
                               !.user = targetUserID, !.tenant = tenantID ] ]
                /\ UNCHANGED aresp
        /\ UNCHANGED << users, tenants >>
        /\ UNCHANGED << oauthVars, gateVars >>

(* First(&user, targetUserID); when user.TenantID is the tenant left, set  *)
(* it to the tenant of another membership of the user, or to NULL.         *)
RemoveEarlierReset(p) ==
    LET v     == tx[p].user
        other == { i \in rowsOfUser(userTenants, v) :
                     userTenants[i].TenantID # tx[p].tenant }
    IN  /\ tx[p].pc = "reset"
        /\ users' = IF v \in DOMAIN users /\ users[v].TenantID = tx[p].tenant
                    THEN setUserTenant(users, v,
                             IF other = {} THEN Nil
                             ELSE userTenants[MinOf(other)].TenantID)
                    ELSE users
        /\ tx' = [ tx EXCEPT ![p] = IdleTx ]
        /\ aresp' = AResp("RemoveUserFromTenant", 200, Nil, << >>, NoToken, TRUE)
        /\ UNCHANGED << tenants, userTenants >>
        /\ UNCHANGED << oauthVars, gateVars >>

-----------------------------------------------------------------------------
(* jwtutil: the token codec (golang-jwt, HS256), shared by the services.   *)

(* The model clock ticks twice a second; a jwt.NumericDate holds whole     *)
(* seconds.                                                                *)
Second == 2

(* time.Hour, scaled to one second of the model clock: what matters is     *)
(* that a lifetime is a whole number of seconds.                           *)
Hour == Second

(* JWTConfig.SigningKey of the deployment                                  *)
SigningKey == "k1"

(* the methods behind *jwt.SigningMethodHMAC                               *)
HMACAlgs == { "HS256", "HS384", "HS512" }

(* jwt.NewNumericDate(t): t.Truncate(time.Second)                          *)
NewNumericDate(t) == t - (t % Second)

(* jwt.RegisteredClaims{ExpiresAt, IssuedAt} as GenerateTokenWithTenant    *)
(* fills them at time.Now() = time                                         *)
registeredClaims(expirationHours, time) ==
    [ exp |-> NewNumericDate(time + expirationHours * Hour),
      iat |-> NewNumericDate(time) ]

(* one member of a JSON object; omitempty drops the zero value             *)
withField(obj, name, val, omit) == IF omit THEN obj ELSE (name :> val) @@ obj

(* json.Marshal that keeps tenant_name and role only beside a tenant_id    *)
marshalClaimsTenantOnly(claims, reg) ==
    LET base == [ email |-> claims.Email, user_id |-> claims.UserID,
                  exp |-> reg.exp, iat |-> reg.iat ]
        a == withField(base, "tenant_id", claims.TenantID, claims.TenantID = Nil)
        b == withField(a, "tenant_name", claims.TenantName, claims.TenantID = Nil)
    IN  withField(b, "role", claims.Role, claims.TenantID = Nil)

(* json.Marshal(UserClaims): email and user_id always, tenant_id unless    *)
(* the pointer is nil, tenant_name and role unless empty (omitempty)       *)
marshalClaims(claims, reg) ==
    LET base == [ email |-> claims.Email, user_id |-> claims.UserID,
                  exp |-> reg.exp, iat |-> reg.iat ]
        a == withField(base, "tenant_id", claims.TenantID, claims.TenantID = Nil)
        b == withField(a, "tenant_name", claims.TenantName, claims.TenantName = "")
    IN  withField(b, "role", claims.Role, claims.Role = "")

(* HMAC of the header and the payload under a key                          *)
hmac(key, alg, payload) == [ key |-> key, alg |-> alg, payload |-> payload ]

(* jwt.NewWithClaims(method, claims).SignedString(key): the three segments *)
SignedString(alg, payload, key) ==
    [ alg |-> alg, payload |-> payload, sig |-> hmac(key, alg, payload) ]

(* GenerateTokenWithTenant from the claims on: registered claims, HS256    *)
generateTokenWithClaims(claims, signingKey, expirationHours, time) ==
    SignedString("HS256",
                 marshalClaims(claims, registeredClaims(expirationHours, time)),
                 signingKey)

(* A header or token string is a sequence of symbols: a word, the blank,   *)
(* or the three segments of a JWT.                                         *)
Word(w) == [ word |-> w ]
WSP == Word(" ")
IsJWT(sym) == "sig" \in DOMAIN sym

(* strings.ToLower on the words of the model                               *)
ToLower(s) ==
    LET lowerWord(w) ==
            CASE w \in { "Bearer", "BEARER", "bearer" } -> "bearer"
              [] w \in { "Basic", "basic" } -> "basic"
              [] OTHER -> w
    IN  [ i \in DOMAIN s |-> IF IsJWT(s[i]) THEN s[i] ELSE Word(lowerWord(s[i].word)) ]

(* strings.ToUpper on the words of the model                               *)
ToUpper(s) ==
    LET upperWord(w) ==
            CASE w \in { "Bearer", "BEARER", "bearer" } -> "BEARER"
              [] w \in { "Basic", "basic" } -> "BASIC"
              [] OTHER -> w
    IN  [ i \in DOMAIN s |-> IF IsJWT(s[i]) THEN s[i] ELSE Word(upperWord(s[i].word)) ]

(* a member of a JSON object, or the zero value of the field               *)
field(obj, name, zero) == IF name \in DOMAIN obj THEN obj[name] ELSE zero

(* json.Unmarshal into &UserClaims{}                                       *)
unmarshalClaims(payload) ==
    [ Email |-> field(payload, "email", ""),
      UserID |-> field(payload, "user_id", Nil),
      TenantID |-> field(payload, "tenant_id", Nil),
      TenantName |-> field(payload, "tenant_name", ""),
      Role |-> field(payload, "role", "") ]

(* RegisteredClaims.Valid that still accepts a token at its expires-at     *)
registeredClaimsValidAtExpiry(payload, time) ==
    /\ "exp" \in DOMAIN payload => time <= payload.exp
    /\ "iat" \in DOMAIN payload => time >= payload.iat

(* RegisteredClaims.Valid(): now.Before(exp), and not used before iat      *)
registeredClaimsValid(payload, time) ==
    /\ "exp" \in DOMAIN payload => time < payload.exp
    /\ "iat" \in DOMAIN payload => time >= payload.iat

(* jwtutil.ValidateToken(tokenString): ParseWithClaims with the HMAC check *)
(* in the key function; any error, or token.Valid = false, is an error     *)
jwtutilValidateToken(tokenString, signingKey, time) ==
    LET jwtError(e) == [ err |-> e, claims |-> NoToken ] IN
    IF ~(Len(tokenString) = 1 /\ IsJWT(tokenString[1])) THEN jwtError("malformed")
    ELSE LET tok == tokenString[1]
         IN  IF tok.alg \notin HMACAlgs THEN jwtError("unverifiable")
             ELSE IF ~registeredClaimsValid(tok.payload, time) THEN jwtError("expired")
             ELSE IF tok.sig # hmac(signingKey, tok.alg, tok.payload)
                  THEN jwtError("signature")
             ELSE [ err |-> "", claims |-> unmarshalClaims(tok.payload) ]

-----------------------------------------------------------------------------
(* The JWT middlewares.  c is the echo.Context of the request: the         *)
(* Authorization header, the time, and the values the middlewares Set.     *)
(* tenantChecked is a history field: the tenant check has run.             *)

NewContext(authHeader, time) ==
    [ header |-> authHeader, time |-> time, user_id |-> Nil, email |-> "",
      tenant_id |-> << >>, tenant_name |-> "", role |-> "", user |-> NoToken,
      tenantChecked |-> FALSE ]

(* return c.JSON(status, ...): the chain ends here                         *)
Reject(c, status) == [ status |-> status, c |-> c, invoked |-> FALSE ]

(* return next(c): the chain goes on with the context c (status 0: no      *)
(* answer written yet)                                                     *)
CallNext(c) == [ status |-> 0, c |-> c, invoked |-> FALSE ]

(* the handler of the route                                                *)
Handler(c) == [ status |-> 200, c |-> c, invoked |-> TRUE ]

(* c.Set("user_id"), c.Set("email")                                        *)
setUser(c, claims) == [ c EXCEPT !.user_id = claims.UserID, !.email = claims.Email ]

(* c.Set("tenant_id", *claims.TenantID) and the name and the role          *)
setTenant(c, claims) ==
    [ c EXCEPT !.tenant_id = << claims.TenantID >>,
               !.tenant_name = claims.TenantName, !.role = claims.Role ]

(* AuthMiddleware of the supplier-service and the authen-service           *)
AuthMiddleware(c) ==
    IF c.header = << >> THEN Reject(c, 401)
    ELSE LET h == c.header
             tokenString ==
                 IF Len(h) > 2 /\ ToUpper(SubSeq(h, 1, 2)) = << Word("BEARER"), WSP >>
                 THEN SubSeq(h, 3, Len(h)) ELSE h
             v == jwtutilValidateToken(tokenString, SigningKey, c.time)
             c1 == setUser(c, v.claims)
         IN  IF v.err # "" THEN Reject(c, 401)
             ELSE IF v.claims.TenantID # Nil THEN CallNext(setTenant(c1, v.claims))
             ELSE CallNext(c1)

(* RequireTenantContext: c.Get("tenant_id").(uint), rejected when unset    *)
(* or zero                                                                 *)
RequireTenantContextGate(c) ==
    LET c1 == [ c EXCEPT !.tenantChecked = TRUE ]
    IN  IF c.tenant_id = << >> \/ c.tenant_id[1] = 0 THEN Reject(c1, 403)
        ELSE CallNext(c1)

(* AuthMiddleware of the product-service                                   *)
ProductAuthMiddleware(c) ==
    IF c.header = << >> THEN Reject(c, 401)
    ELSE LET parts == Split(c.header, WSP)
         IN  IF Len(parts) # 2 \/ ToLower(parts[1]) # << Word("bearer") >>
             THEN Reject(c, 401)
             ELSE LET v == jwtutilValidateToken(parts[2], SigningKey, c.time)
                      c1 == [ setUser(c, v.claims) EXCEPT !.tenantChecked = TRUE ]
                  IN  IF v.err # "" THEN Reject(c, 401)
                      ELSE IF v.claims.TenantID # Nil THEN CallNext(setTenant(c1, v.claims))
                      ELSE Reject(c1, 400)

(* JWTAuthMiddleware of gomicro                                            *)
JWTAuthMiddleware(c) ==
    IF c.header = << >> THEN Reject(c, 401)
    ELSE LET parts == Split(c.header, WSP)
         IN  IF Len(parts) # 2 \/ parts[1] # << Word("Bearer") >>
             THEN Reject(c, 401)
             ELSE LET v == jwtutilValidateToken(parts[2], SigningKey, c.time)
                  IN  IF v.err # "" THEN Reject(c, 401)
                      ELSE CallNext([ c EXCEPT !.user = v.claims ])

(* The routes: the middleware chain each group declares.                   *)
Routes == { "/api/suppliers", "/api/tenant-users", "/api/users",
            "/api/products", "/api/resource" }

Serve(route, c) ==
    LET first == CASE route \in { "/api/suppliers", "/api/tenant-users",
                                  "/api/users" } -> AuthMiddleware(c)
                   [] route = "/api/products" -> ProductAuthMiddleware(c)
                   [] OTHER -> JWTAuthMiddleware(c)
        second == IF route \in { "/api/suppliers", "/api/tenant-users" }
                  THEN RequireTenantContextGate(first.c) ELSE CallNext(first.c)
    IN  IF first.status # 0 THEN first
        ELSE IF second.status # 0 THEN second
        ELSE Handler(second.c)

(* the answer of the route: status, final context, handler invoked         *)
NoGResp == [ route |-> "none", status |-> 0, c |-> NewContext(<< >>, 0),
             invoked |-> FALSE ]

(* jwt: the signed token, and as history the arguments it was made from    *)
NoJWT == [ token |-> Word(""), claims |-> NoToken, hours |-> 0, at |-> 0 ]

(* A token-issuing handler calls GenerateTokenWithTenant under the         *)
(* deployment's JWTConfig (SigningKey, ExpirationHours).                   *)
IssueJWT(email, userID, tenantID, tenantName, role, expirationHours) ==
    /\ jwt = NoJWT
    /\ jwt' = [ token |-> generateTokenWithClaims(
                              GenerateTokenWithTenant(email, userID, tenantID,
                                                      tenantName, role),
                              SigningKey, expirationHours, now),
                claims |-> [ Email |-> email, UserID |-> userID,
                             TenantID |-> tenantID, TenantName |-> tenantName,
                             Role |-> role ],
                hours |-> expirationHours, at |-> now ]
    /\ UNCHANGED gresp
    /\ UNCHANGED << oauthVars, authenVars >>

(* A request to a route behind a JWT middleware                            *)
Request(route, authHeader) ==
    /\ LET r == Serve(route, NewContext(authHeader, now))
       IN  gresp' = [ route |-> route, status |-> r.status, c |-> r.c,
                      invoked |-> r.invoked ]
    /\ UNCHANGED jwt
    /\ UNCHANGED << oauthVars, authenVars >>

-----------------------------------------------------------------------------
(* Initial state: both stores empty, no request in flight.                 *)

Init ==
    /\ clients = << >>
    /\ accessTokens = << >>
    /\ refreshTokens = << >>
    /\ now = 0
    /\ rq = [ p \in Slots |-> IdleRq ]
    /\ resp = NoResp
    /\ users = << >>
    /\ tenants = << >>
    /\ userTenants = << >>
    /\ tx = [ p \in Slots |-> IdleTx ]
    /\ aresp = NoAResp
    /\ jwt = NoJWT
    /\ gresp = NoGResp

-----------------------------------------------------------------------------
(* Request inputs.                                                         *)

ClientCredentials == << "client_credentials" >>
Password          == << "password" >>
RefreshGrant      == << "refresh_token" >>

AllGrants  == << ClientCredentials, Password, RefreshGrant >>
GrantLists == { AllGrants, << ClientCredentials >>, << >> }

(* "scopes": ["read", "write"] and "scopes": ["read write"] *)
ScopeLists == { << << "read" >>, << "write" >> >>, << << "read", SP, "write" >> >> }

GrantTypes == { ClientCredentials, Password, << "authorization_code" >>, << >> }

ReadWriteDelete == << "read", SP, "write", SP, "delete" >>
RequestedScopes == { << >>, ReadWriteDelete, << "write" >>, << SP >> }

Logins == { << "test@example.com", "password" >>,
            << "test@example.com", "secret" >>,
            << "", "password" >> }

TenantStrs == { << >>, << "1" >>, << "2" >>, << "x" >> }

Hints == { "", "access_token", "refresh_token", "id_token" }

(* every token string that can have been issued, the empty one and one     *)
(* that was never issued                                                   *)
(* what requests present as a token: nothing, a string never issued, or   *)
(* a token of an issued pair                                               *)
TokenStrings ==
    { EmptyTok, UnknownTok } \cup { AccessTok(n) : n \in 1 .. MaxIssued }
                             \cup { RefreshTok(n) : n \in 1 .. MaxIssued }

RefreshStrings ==
    { EmptyTok, UnknownTok } \cup { RefreshTok(n) : n \in 1 .. MaxIssued }

-----------------------------------------------------------------------------
(* The grant endpoint alone: registration and the grants that run as one   *)
(* statement sequence, over every request input.                           *)

NextGrant ==
    \/ \E g \in GrantLists, s \in ScopeLists : RegisterClient(g, s)
    \/ \E c \in 1 .. MaxClients, sc \in RequestedScopes :
          /\ Len(accessTokens) < MaxIssued
          /\ IssueToken(c, ClientCredentials, "", "", << >>, sc, "")
    \/ \E c \in 1 .. MaxClients, l \in Logins, t \in TenantStrs,
          sc \in { << >>, ReadWriteDelete } :
          /\ Len(accessTokens) < MaxIssued
          /\ IssueToken(c, Password, l[1], l[2], t, sc, "")
    \/ \E c \in 1 .. MaxClients, gt \in { << "authorization_code" >>, << >> } :
          /\ Len(accessTokens) < MaxIssued
          /\ IssueToken(c, gt, "", "", << >>, << >>, "")

SpecGrant == Init /\ [][NextGrant]_vars

(* The token life cycle: a pair is issued, refreshed, revoked, presented   *)
(* and expires; refresh_token requests are handled one after the other.    *)
RegisterFullClient == RegisterClient(AllGrants, << << "read", SP, "write" >> >>)

Issue ==
    \E c \in 1 .. MaxClients :
        /\ Len(accessTokens) < MaxIssued
        /\ IssueToken(c, ClientCredentials, "", "", << >>, << >>, "")

Next ==
    \/ RegisterFullClient
    \/ Issue
    \/ \E c \in 1 .. MaxClients, v \in RefreshStrings : RefreshLookup(1, c, v)
    \/ RefreshCreate(1, "")
    \/ RefreshRevoke(1, "")
    \/ \E c \in 1 .. MaxClients, v \in TokenStrings, h \in Hints : RevokeToken(c, v, h)
    \/ \E v \in TokenStrings : ValidateToken(v)
    \/ \E v \in TokenStrings : BearerTokenMiddleware(v)
    \/ Tick

Spec == Init /\ [][Next]_vars

(* Sequential refresh_token requests of clients with and without the       *)
(* refresh_token grant.                                                    *)
NextSeq ==
    \/ \E g \in { AllGrants, << ClientCredentials >> } :
          RegisterClient(g, << << "read", SP, "write" >> >>)
    \/ Issue
    \/ \E c \in 1 .. MaxClients, v \in RefreshStrings : RefreshLookup(1, c, v)
    \/ RefreshCreate(1, "")
    \/ RefreshRevoke(1, "")
    \/ \E c \in 1 .. MaxClients, v \in RefreshStrings : RevokeToken(c, v, "refresh_token")
    \/ Tick

SpecSeq == Init /\ [][NextSeq]_vars

(* Concurrent refresh_token requests.                                      *)
NextConc ==
    \/ RegisterFullClient
    \/ Issue
    \/ \E p \in Slots, c \in 1 .. MaxClients, v \in RefreshStrings : RefreshLookup(p, c, v)
    \/ \E p \in Slots : RefreshCreate(p, "")
    \/ \E p \in Slots : RefreshRevoke(p, "")
    \/ Tick

SpecConc == Init /\ [][NextConc]_vars

(* The token endpoint over every grant_type, for clients with different    *)
(* allow-lists; refresh_token requests are handled one after the other.    *)
AuthorizationCode == << "authorization_code" >>

EndpointGrantLists ==
    { AllGrants, << ClientCredentials >>, << AuthorizationCode, RefreshGrant >> }

EndpointGrantTypes ==
    { ClientCredentials, Password, AuthorizationCode, << "implicit" >>, << >> }

NextEndpoint ==
    \/ \E g \in EndpointGrantLists :
          RegisterClient(g, << << "read", SP, "write" >> >>)
    \/ \E c \in 1 .. MaxClients, gt \in EndpointGrantTypes :
          /\ c \in DOMAIN clients
          /\ \/ Len(accessTokens) < MaxIssued
             \/ gt \notin { ClientCredentials, Password }
             \/ ~isGrantAllowed(clients[c].Grants, gt)
          /\ IssueToken(c, gt, "test@example.com", "password", << >>, << >>, "")
    \/ \E c \in 1 .. MaxClients, v \in RefreshStrings : RefreshLookup(1, c, v)
    \/ RefreshCreate(1, "")
    \/ RefreshRevoke(1, "")
    \/ Tick

SpecEndpoint == Init /\ [][NextEndpoint]_vars

(* The token endpoint when an INSERT of createTokens can fail: dbErr names *)
(* the table whose Create returns an error, "" when both succeed.          *)
DbErrs == { "", "access_tokens", "refresh_tokens" }

NextFault ==
    \/ RegisterFullClient
    \/ \E c \in 1 .. MaxClients, e \in DbErrs :
          /\ Len(accessTokens) < MaxIssued + 1
          /\ IssueToken(c, ClientCredentials, "", "", << >>, << >>, e)
    \/ \E c \in 1 .. MaxClients, v \in RefreshStrings : RefreshLookup(1, c, v)
    \/ \E e \in DbErrs : RefreshCreate(1, e)
    \/ \E e \in { "", "refresh_tokens" } : RefreshRevoke(1, e)
    \/ \E v \in TokenStrings : ValidateToken(v)
    \/ \E v \in TokenStrings : BearerTokenMiddleware(v)
    \/ Tick

SpecFault == Init /\ [][NextFault]_vars

(* Pairs that differ in identity, tenant and scope are issued to two       *)
(* clients and exchanged.                                                  *)
CarryStrings == { UnknownTok } \cup { RefreshTok(n) : n \in 1 .. MaxIssued + 1 }

NextCarry ==
    \/ RegisterFullClient
    \/ \E c \in 1 .. MaxClients, sc \in { << >>, << "write" >> } :
          /\ Len(accessTokens) < MaxIssued + 1
          /\ IssueToken(c, ClientCredentials, "", "", << >>, sc, "")
    \/ \E c \in 1 .. MaxClients, t \in { << >>, << "2" >> }, sc \in { << >>, << "read" >> } :
          /\ Len(accessTokens) < MaxIssued + 1
          /\ IssueToken(c, Password, "test@example.com", "password", t, sc, "")
    \/ \E c \in 1 .. MaxClients, v \in CarryStrings : RefreshLookup(1, c, v)
    \/ RefreshCreate(1, "")
    \/ RefreshRevoke(1, "")
    \/ Tick

SpecCarry == Init /\ [][NextCarry]_vars

(* The authen-service: identities, tenants, memberships and the JWTs       *)
(* issued for them.                                                        *)
Emails == { "a@example.com", "b@example.com" }

TenantIds == 0 .. MaxTenants

(* the password of a login request: missing, the right one, a wrong one   *)
PasswordInputs == { "", "right", "wrong" }

TenantNames == { "acme", "globex" }

(* Membership management: tenants are created, members added and removed, *)
(* default tenants set.                                                    *)
NextTenant ==
    \/ \E e \in Emails : Register(e)
    \/ \E e \in Emails : Login(e, TRUE, << 1 >>)
    \/ \E u \in UserIds, n \in TenantNames : CreateTenant(u, n, "") /\ Len(userTenants') <= MaxRows
    \/ \E u \in UserIds, t \in 1 .. MaxTenants, e \in Emails :
          AddUserToTenant(u, t, e, "") /\ Len(userTenants') <= MaxRows
    \/ \E u \in UserIds, t \in 1 .. MaxTenants, v \in UserIds, l \in BOOLEAN :
          RemoveUserFromTenant(u, t, v, l)
    \/ \E u \in UserIds, t \in 1 .. MaxTenants : SetDefaultBegin(1, u, t)
    \/ SetDefaultClear(1)
    \/ \E up \in BOOLEAN : SetDefaultCommit(1, up)

SpecTenant == Init /\ [][NextTenant]_vars

(* Concurrent SetDefaultTenant transactions of users who create tenants.   *)
NextDefault ==
    \/ \E e \in Emails : Register(e)
    \/ \E u \in UserIds, n \in TenantNames : CreateTenant(u, n, "") /\ Len(userTenants') <= MaxRows
    \/ \E p \in Slots, u \in UserIds, t \in TenantIds : SetDefaultBegin(p, u, t)
    \/ \E p \in Slots : SetDefaultClear(p)
    \/ \E p \in Slots, up \in BOOLEAN : SetDefaultCommit(p, up)

SpecDefault == Init /\ [][NextDefault]_vars

(* Tenants are created by transactions that can fail; members are added   *)
(* and removed.                                                            *)
TenantDbErrs == { "", "begin", "tenant", "membership", "commit" }

NextMembers ==
    \/ \E e \in Emails : Register(e)
    \/ \E e \in Emails : Login(e, TRUE, << 1 >>)
    \/ \E u \in UserIds, n \in TenantNames, e \in TenantDbErrs : CreateTenant(u, n, e)
          /\ Len(userTenants') <= MaxRows
    \/ \E u \in UserIds, t \in 1 .. MaxTenants, e \in Emails, r \in { "", "admin" } :
          AddUserToTenant(u, t, e, r) /\ Len(userTenants') <= MaxRows
    \/ \E u \in UserIds, t \in 1 .. MaxTenants, v \in UserIds, l \in BOOLEAN :
          RemoveUserFromTenant(u, t, v, l)

SpecMembers == Init /\ [][NextMembers]_vars

(* A user is added to the tenants of another user and removed again.       *)
NextRemove ==
    \/ \E e \in Emails : Register(e)
    \/ \E e \in Emails : Login(e, TRUE, << 1 >>)
    \/ \E u \in UserIds, n \in TenantNames : CreateTenant(u, n, "")
    \/ \E u \in UserIds, t \in 1 .. MaxTenants, e \in Emails :
          AddUserToTenant(u, t, e, "")
    \/ \E u \in UserIds, t \in 1 .. MaxTenants, v \in UserIds, l \in BOOLEAN :
          RemoveUserFromTenant(u, t, v, l)

SpecRemove == Init /\ [][NextRemove]_vars

(* Every handler that issues a JWT, over stores written by the earlier     *)
(* tenant handlers.                                                        *)
NextIssue ==
    \/ \E e \in Emails : Register(e)
    \/ \E e \in Emails, t \in TenantIds :
          Login(e, TRUE, << t >>) \/ Login(e, TRUE, << >>)
    \/ \E e \in Emails : LoginWithoutTenant(e, "right", << >>)
    \/ \E u \in UserIds, t \in TenantIds : SwitchTenant(u, t)
    \/ \E u \in UserIds, t \in TenantIds : SelectTenant(u, TRUE, t)
    \/ \E u \in UserIds, n \in TenantNames :
          CreateTenantEarlier(u, n) /\ Len(userTenants') <= MaxRows
    \/ \E u \in UserIds, t \in TenantIds, e \in Emails :
          AddUserToTenant(u, t, e, "") /\ Len(userTenants') <= MaxRows
    \/ \E u \in UserIds, t \in TenantIds : SetDefaultTenantEarlier(u, t)
    \/ \E u \in UserIds, t \in TenantIds, v \in UserIds : RemoveEarlierDelete(1, u, t, v)
    \/ RemoveEarlierReset(1)

SpecIssue == Init /\ [][NextIssue]_vars

(* Concurrent AddUserToTenant requests in tenants created meanwhile.       *)
NextAdd ==
    \/ \E e \in Emails : Register(e)
    \/ \E e \in Emails : Login(e, TRUE, << 1 >>)
    \/ \E u \in UserIds, n \in TenantNames : CreateTenant(u, n, "") /\ Len(userTenants') <= MaxRows
    \/ \E p \in Slots, u \in UserIds, t \in 1 .. MaxTenants, e \in Emails :
          AddUserBegin(p, u, t, e, "")
    \/ \E p \in Slots : AddUserInsert(p) /\ Len(userTenants') <= MaxRows

SpecAdd == Init /\ [][NextAdd]_vars

(* Token issuance of the authen-service for members, former members and    *)
(* strangers of a tenant.                                                  *)
NextAccess ==
    \/ \E e \in Emails \cup { "" } : Register(e)
    \/ \E e \in Emails, ok \in BOOLEAN, t \in TenantIds :
          Login(e, ok, << t >>) \/ Login(e, ok, << >>)
    \/ \E e \in Emails \cup { "" }, pw \in PasswordInputs, t \in TenantIds :
          LoginWithoutTenant(e, pw, << t >>) \/ LoginWithoutTenant(e, pw, << >>)
    \/ \E u \in UserIds, t \in TenantIds : SwitchTenant(u, t)
    \/ \E u \in UserIds, ok \in BOOLEAN, t \in TenantIds : SelectTenant(u, ok, t)
    \/ \E u \in UserIds, n \in TenantNames : CreateTenant(u, n, "") /\ Len(userTenants') <= MaxRows
    \/ \E u \in UserIds, t \in TenantIds, e \in Emails : AddUserToTenant(u, t, e, "")
          /\ Len(userTenants') <= MaxRows
    \/ \E u \in UserIds, t \in TenantIds, v \in UserIds :
          RemoveUserFromTenant(u, t, v, FALSE)

SpecAccess == Init /\ [][NextAccess]_vars

(* The JWT gate: one token is signed, the clock runs, and requests present *)
(* it, or what a client can make of it, under every form of header.        *)
ExpirationHoursSet == { -1, 0, 1 }

(* the token, the same payload signed with another key, left unsigned, its *)
(* expiry pushed out under the old signature, and a string that is no JWT  *)
Presented(tok) ==
    IF IsJWT(tok)
    THEN { tok,
           SignedString(tok.alg, tok.payload, "k2"),
           SignedString("none", tok.payload, ""),
           [ tok EXCEPT !.payload = [ @ EXCEPT !["exp"] = @ + Hour ] ],
           Word("garbage") }
    ELSE { Word("garbage") }

AuthHeaders ==
    { << >>, << Word("Bearer") >> }
      \cup UNION { { << sym >>, << Word("Bearer"), WSP, WSP, sym >> }
                     \cup { << Word(s), WSP, sym >>
                            : s \in { "Bearer", "bearer", "Basic" } }
                   : sym \in Presented(jwt.token) }

NextGate ==
    \/ \E t \in { << Nil, "", "" >>, << 1, "acme", "owner" >> },
          h \in ExpirationHoursSet :
          IssueJWT("a@example.com", 1, t[1], t[2], t[3], h)
    \/ \E r \in Routes, h \in AuthHeaders : Request(r, h)
    \/ Tick

SpecGate == Init /\ [][NextGate]_vars

(* The codec alone: every combination of claims is signed and read back    *)
(* through the middleware that keeps the whole claims.                     *)
NextCodec ==
    \/ \E e \in Emails, u \in UserIds, t \in TenantIds, n \in TenantNames \cup { "" },
          r \in { "", "owner", "member" }, h \in ExpirationHoursSet :
          IssueJWT(e, u, t, n, r, h)
    \/ Request("/api/resource", << Word("Bearer"), WSP, jwt.token >>)
    \/ Tick

SpecCodec == Init /\ [][NextCodec]_vars

-----------------------------------------------------------------------------
(* Properties of the oauth-service.                                        *)

ClientOf(t) == clients[t.ClientID]

Successes(h) == Cardinality({ i \in DOMAIN h : h[i] })

FirstOnly(h) == h # << >> => h[1] /\ \A i \in 2 .. Len(h) : ~h[i]

C2_AtMostOneExchange ==
    \A i \in DOMAIN refreshTokens : Successes(refreshTokens[i].hist) <= 1

(* C3: a password-grant pair carries tenant id T only if the authenticated *)
(* identity has an active membership in T when it is issued.               *)
C3_TenantBoundOnlyForMembers ==
    \A i \in DOMAIN accessTokens :
        (accessTokens[i].grant = "password" /\ accessTokens[i].TenantID # Nil)
            => \E m \in DOMAIN userTenants :
                  /\ userTenants[m].UserID = accessTokens[i].UserID
                  /\ userTenants[m].TenantID = accessTokens[i].TenantID
                  /\ userTenants[m].Active /\ ~userTenants[m].Deleted

(* C5: a token is treated as valid (IsValid, introspection, bearer gate)   *)
(* if and only if it is not revoked and now < expiresAt; at the instant    *)
(* now = expiresAt it is not.                                              *)
C5_ValidIffBeforeExpiry ==
    /\ \A i \in DOMAIN accessTokens :
          LET t == accessTokens[i]
              live == ~t.Revoked /\ now < t.ExpiresAt
          IN  /\ IsValid(t, now) <=> live
              /\ introspectActive(accessTokens, t.Token, now) <=> live
              /\ bearerAccepts(accessTokens, t.Token, now) <=> live
    /\ \A i \in DOMAIN refreshTokens :
          LET t == refreshTokens[i]
          IN  IsValid(t, now) <=> (~t.Revoked /\ now < t.ExpiresAt)

(* C6: a retired token is never reactivated: revoked never changes from    *)
(* true to false, expiresAt never changes, and a token that is not valid   *)
(* is not valid after any step.                                            *)
StaysRetired(rows, rowsN) ==
    \A i \in DOMAIN rows :
        /\ i \in DOMAIN rowsN
        /\ rowsN[i].Token = rows[i].Token
        /\ rowsN[i].ExpiresAt = rows[i].ExpiresAt
        /\ rows[i].Revoked => rowsN[i].Revoked
        /\ ~IsValid(rows[i], now) => ~IsValid(rowsN[i], now')

C6_RetiredForever ==
    [][ /\ StaysRetired(accessTokens, accessTokens')
        /\ StaysRetired(refreshTokens, refreshTokens') ]_vars

C6_Witness ==
    /\ Len(accessTokens) >= 2
    /\ accessTokens[1].Revoked
    /\ refreshTokens[1].Revoked
    /\ now > refreshTokens[1].ExpiresAt
    /\ resp.op = "ValidateToken" /\ resp.access = accessTokens[1].Token
    /\ ~resp.active

(* C9: the scope of every token issued by the client_credentials or the    *)
(* password grant consists of elements of the client's allowed scope set,  *)
(* whatever scope was requested.                                           *)
AllowedScopeSet(c) == Range(Split(c.Scopes, SP))

C10_DeleteDropped ==
    \A i \in DOMAIN accessTokens :
        LET t == accessTokens[i]
        IN  (/\ t.grant = "client_credentials"
             /\ t.reqScope = ReadWriteDelete
             /\ ClientOf(t).reqScopes \in ScopeLists)
              => t.Scopes = << "read", SP, "write" >>

(* The persisted columns of token rows (history fields left out).         *)
Stored(rows) ==
    [ i \in DOMAIN rows |->
        [ ID |-> rows[i].ID, Token |-> rows[i].Token, ClientID |-> rows[i].ClientID,
          ExpiresAt |-> rows[i].ExpiresAt, Revoked |-> rows[i].Revoked ] ]

(* A step in which client c sends a token request with grant_type gt.      *)
TokenRequest(c, gt) ==
    IF gt = RefreshGrant
    THEN \E v \in RefreshStrings : RefreshLookup(1, c, v)
    ELSE IssueToken(c, gt, "test@example.com", "password", << >>, << >>, "")

(* No token row is created or revoked and no exchange is started.          *)
NoTokenWork ==
    /\ Stored(accessTokens') = Stored(accessTokens)
    /\ Stored(refreshTokens') = Stored(refreshTokens)
    /\ rq' = rq

(* C11: a token request whose grant_type is not in the list of grants the  *)
(* client was registered with is answered 400 unauthorized_client, and no  *)
(* token row is created or revoked and no refresh exchange is started.     *)
C11_UnauthorizedClient ==
    [][ \A c \in DOMAIN clients, gt \in EndpointGrantTypes \cup { RefreshGrant } :
          (gt \notin Range(clients[c].reqGrants) /\ TokenRequest(c, gt))
            => /\ resp'.status = 400
               /\ resp'.error = "unauthorized_client"
               /\ NoTokenWork ]_vars

C11_Witness ==
    /\ resp.op = "refresh_token"
    /\ resp.error = "unauthorized_client"
    /\ \E i \in DOMAIN refreshTokens : IsValid(refreshTokens[i], now)

UnsupportedGrantTypes == { AuthorizationCode, << "implicit" >>, << >> }

(* C12, as stated: every token request whose grant_type is not one of      *)
(* client_credentials, password, refresh_token is rejected with            *)
(* unsupported_grant_type and issues no tokens, whatever the client's      *)
(* allow-list.                                                             *)
C12_AlwaysUnsupported ==
    [][ \A c \in DOMAIN clients, gt \in UnsupportedGrantTypes :
          TokenRequest(c, gt)
            => /\ resp'.status = 400
               /\ resp'.error = "unsupported_grant_type"
               /\ NoTokenWork ]_vars

(* C12, amended: such a request is rejected with 400 and issues no tokens; *)
(* the error is unsupported_grant_type when the grant_type is in the       *)
(* client's allow-list and unauthorized_client when it is not.             *)
C12_UnsupportedOrUnauthorized ==
    [][ \A c \in DOMAIN clients, gt \in UnsupportedGrantTypes :
          TokenRequest(c, gt)
            => /\ resp'.status = 400
               /\ resp'.error = IF gt \in Range(clients[c].reqGrants)
                                THEN "unsupported_grant_type"
                                ELSE "unauthorized_client"
               /\ NoTokenWork ]_vars

C12_Witness ==
    /\ resp.op = "IssueToken"
    /\ resp.error = "unsupported_grant_type"
    /\ \E c \in DOMAIN clients : AuthorizationCode \in Range(clients[c].reqGrants)

(* The client c owns an access token whose string is v.                    *)
OwnsAccessToken(c, v) ==
    \E i \in DOMAIN accessTokens :
        accessTokens[i].Token = v /\ accessTokens[i].ClientID = clients[c].ID

(* C13: once the owning client has called RevokeToken for an access token, *)
(* introspection of that token answers active = false and the bearer gate  *)
(* rejects it.                                                             *)
C13_RevokedIsInactive ==
    [][ \A c \in DOMAIN clients, v \in TokenStrings, h \in Hints :
          (OwnsAccessToken(c, v) /\ RevokeToken(c, v, h))
            => /\ ~introspectActive(accessTokens', v, now')
               /\ ~bearerAccepts(accessTokens', v, now') ]_vars

(* C14: RevokeToken with a non-empty token answers 200 for every token     *)
(* value and every token_type_hint, and the same call repeated on the      *)
(* resulting store changes nothing.                                        *)
C14_RevokeAlwaysOkAndIdempotent ==
    [][ \A c \in DOMAIN clients, v \in TokenStrings \ { EmptyTok }, h \in Hints :
          RevokeToken(c, v, h)
            => /\ resp'.status = 200
               /\ revokedAccessTokens(accessTokens', v, clients[c].ID, h) = accessTokens'
               /\ revokedRefreshTokens(accessTokens', refreshTokens', v,
                                       clients[c].ID, h) = refreshTokens' ]_vars

C14_Witness ==
    /\ resp.op = "RevokeToken"
    /\ resp.status = 200
    /\ \E i \in DOMAIN accessTokens : accessTokens[i].Revoked
    /\ \E i \in DOMAIN refreshTokens : refreshTokens[i].byClient

(* C15: the bearer gate answers 200 (forwards) only when the presented     *)
(* string is the token of a stored access token that is not revoked and    *)
(* whose expiry lies ahead (now < expiresAt); otherwise it answers 401.  A *)
(* refresh-token string is never accepted.                                 *)
C15_BearerOnlyLiveAccessToken ==
    [][ \A v \in TokenStrings :
          BearerTokenMiddleware(v)
            => /\ resp'.status \in { 200, 401 }
               /\ resp'.status = 200 =>
                     \E i \in DOMAIN accessTokens :
                         /\ accessTokens[i].Token = v
                         /\ ~accessTokens[i].Revoked
                         /\ now < accessTokens[i].ExpiresAt
               /\ (\E i \in DOMAIN refreshTokens : refreshTokens[i].Token = v)
                     => resp'.status = 401 ]_vars

(* C17: every stored access token has a refresh token row that references *)
(* it, also after an issuance that answered server_error.                  *)
C17_EveryAccessTokenPaired ==
    \A i \in DOMAIN accessTokens :
        \E j \in DOMAIN refreshTokens :
            refreshTokens[j].AccessTokenID = accessTokens[i].ID

(* C16: every invalid_grant answer of the refresh_token grant is the same  *)
(* response (status, error, error_description), whichever of not found,    *)
(* other client, revoked or expired made the exchange fail.                *)
C16_SameInvalidGrant ==
    (resp.op = "refresh_token" /\ resp.error = "invalid_grant")
        => resp = InvalidGrant("The refresh token is invalid")

-----------------------------------------------------------------------------
(* Properties of the authen-service.                                       *)

HasActiveMembership(rows, u, t) ==
    \E i \in DOMAIN rows :
        /\ rows[i].UserID = u /\ rows[i].TenantID = t
        /\ rows[i].Active /\ ~rows[i].Deleted

TokenIssuers == { "Login", "SwitchTenant", "SelectTenant" }

(* C4: Login with tenant_id = T, SwitchTenant to T and SelectTenant of T   *)
(* issue no token when the requesting identity has no active membership in *)
(* T, and answer 403 to a caller that passed authentication: no JWT for T, *)
(* for another tenant or without tenant is handed to a non-member.         *)
C4_NonMemberDenied ==
    [][ LET r == aresp'
        IN  (/\ r.op \in TokenIssuers
             /\ r.tenant # << >>
             /\ r.tenant[1] # 0
             /\ ~HasActiveMembership(userTenants', r.user, r.tenant[1]))
              => /\ r.token = NoToken
                 /\ r.authed => r.status = 403 ]_vars

Defaults(u) ==
    Cardinality({ i \in rowsOfUser(userTenants, u) : userTenants[i].IsDefault })

InFlight(u) == \E p \in Slots : tx[p].pc # "idle" /\ tx[p].user = u

(* C7: once the SetDefaultTenant calls of an identity have completed,      *)
(* exactly one of its memberships is the default; an identity for which no *)
(* call is running never has more than one.                                *)
C7_OneDefaultAfterSetDefault ==
    \A u \in DOMAIN users :
        ~InFlight(u) =>
            /\ Defaults(u) <= 1
            /\ (/\ aresp.op = "SetDefaultTenant" /\ aresp.status = 200
                /\ aresp.user = u) => Defaults(u) = 1

(* C8: in every reachable state each identity has at most one membership   *)
(* with is_default = true.                                                 *)
C8_AtMostOneDefault ==
    \A u \in UserIds :
        \A i, j \in rowsOfUser(userTenants, u) :
            (userTenants[i].IsDefault /\ userTenants[j].IsDefault) => i = j

(* C18: CreateTenant is all-or-nothing.  Every tenant row has a live       *)
(* membership row of its owner and every membership row belongs to a       *)
(* stored tenant; a CreateTenant request that answers 201 has added the    *)
(* tenant row together with the creator's membership row (role owner,      *)
(* is_default, active), and one that fails at any statement of the         *)
(* transaction has added neither.                                          *)
ownerRow(ts, uts, t) ==
    { i \in DOMAIN uts : /\ uts[i].TenantID = ts[t].ID
                         /\ uts[i].UserID = ts[t].OwnerID
                         /\ ~uts[i].Deleted }

C18_CreateTenantAllOrNothing ==
    /\ [](/\ \A t \in DOMAIN tenants : ownerRow(tenants, userTenants, t) # {}
          /\ \A i \in DOMAIN userTenants : userTenants[i].TenantID \in DOMAIN tenants)
    /\ [][ \A u \in UserIds, n \in TenantNames, e \in TenantDbErrs :
             CreateTenant(u, n, e)
               => IF aresp'.status = 201
                  THEN /\ Len(tenants') = Len(tenants) + 1
                       /\ Len(userTenants') = Len(userTenants) + 1
                       /\ tenants'[Len(tenants')].OwnerID = u
                       /\ userTenants'[Len(userTenants')] =
                             [ ID |-> Len(userTenants'), UserID |-> u,
                               TenantID |-> tenants'[Len(tenants')].ID,
                               Role |-> "owner", IsDefault |-> TRUE,
                               Active |-> TRUE, Deleted |-> FALSE ]
                  ELSE /\ tenants' = tenants
                       /\ userTenants' = userTenants ]_vars

(* a CreateTenant whose transaction failed has been answered while tenants *)
(* created before it stand with their owner rows                           *)
C18_Witness ==
    /\ aresp.op = "CreateTenant"
    /\ aresp.status = 500
    /\ Len(tenants) = 1
    /\ \E i \in DOMAIN userTenants :
          /\ userTenants[i].Role = "owner"
          /\ userTenants[i].IsDefault
          /\ userTenants[i].TenantID = 1

(* C19: no RemoveUserFromTenant request removes the membership row of the  *)
(* tenant's owner, whoever calls it; a request whose target is the owner   *)
(* of the tenant is answered 403 and changes no stored row.                *)
C19_OwnerNeverRemoved ==
    [][ \A u \in UserIds, t \in DOMAIN tenants, v \in UserIds, l \in BOOLEAN :
          RemoveUserFromTenant(u, t, v, l)
            => /\ ownerRow(tenants, userTenants, t) \subseteq
                    ownerRow(tenants', userTenants', t)
               /\ tenants[t].OwnerID = v =>
                     /\ aresp'.status = 403
                     /\ userTenants' = userTenants
                     /\ tenants' = tenants
                     /\ users' = users ]_vars

(* a manager with tenant context has removed a member of a tenant whose    *)
(* owner row is still there                                                *)
C19_Witness ==
    /\ aresp.op = "RemoveUserFromTenant"
    /\ aresp.status = 200
    /\ \E i \in DOMAIN userTenants : userTenants[i].Deleted
    /\ \A t \in DOMAIN tenants : ownerRow(tenants, userTenants, t) # {}

(* C20: at most one live membership row per (user, tenant) pair.           *)
C20_OneMembershipPerPair ==
    \A i, j \in DOMAIN userTenants :
        ( /\ i # j
          /\ ~userTenants[i].Deleted
          /\ ~userTenants[j].Deleted
          /\ userTenants[i].UserID = userTenants[j].UserID )
        => userTenants[i].TenantID # userTenants[j].TenantID

(* C25: when a refresh_token grant answers 200 for a refresh token, that   *)
(* token is revoked in the store as the response is produced, whether or   *)
(* not the UPDATE succeeded.                                               *)
C25_RevokedWhenExchanged ==
    [][ \A e \in { "", "refresh_tokens" } :
          (RefreshRevoke(1, e) /\ resp'.status = 200)
            => refreshTokens'[rq[1].rt].Revoked ]_vars

(* C26: a refresh_token exchange that answers 200 has minted a pair whose  *)
(* client, identity, tenant and scope are those of the access token the    *)
(* presented refresh token references, and the presented token belongs to  *)
(* the requesting client.                                                  *)
C26_CarriedForward ==
    [][ RefreshRevoke(1, "") =>
          LET old  == refreshTokens[rq[1].rt]
              orig == { i \in DOMAIN accessTokens :
                          accessTokens[i].ID = old.AccessTokenID }
              new  == { i \in DOMAIN accessTokens' :
                          accessTokens'[i].Token = resp'.access }
              newR == { j \in DOMAIN refreshTokens' :
                          refreshTokens'[j].Token = resp'.refresh }
          IN  /\ resp'.status = 200
              /\ old.ClientID = rq[1].client
              /\ orig # {} /\ new # {} /\ newR # {}
              /\ \A o \in orig, n \in new, r \in newR :
                    /\ accessTokens'[n].ClientID = accessTokens[o].ClientID
                    /\ accessTokens'[n].UserID   = accessTokens[o].UserID
                    /\ accessTokens'[n].TenantID = accessTokens[o].TenantID
                    /\ accessTokens'[n].Scopes   = accessTokens[o].Scopes
                    /\ resp'.scope = accessTokens[o].Scopes
                    /\ refreshTokens'[r].AccessTokenID = accessTokens'[n].ID
                    /\ refreshTokens'[r].ClientID = accessTokens[o].ClientID
                    /\ refreshTokens'[r].UserID   = accessTokens[o].UserID
                    /\ refreshTokens'[r].TenantID = accessTokens[o].TenantID ]_vars

(* the pair of a password grant bound to a tenant with a narrowed scope    *)
(* has been exchanged while another pair of other attributes is stored     *)
C26_Witness ==
    /\ resp.op = "refresh_token"
    /\ resp.status = 200
    /\ \E i, j \in DOMAIN accessTokens :
          /\ accessTokens[i].Token = resp.access
          /\ accessTokens[i].UserID # Nil
          /\ accessTokens[i].TenantID # Nil
          /\ j < i
          /\ accessTokens[j].Scopes # accessTokens[i].Scopes
          /\ accessTokens[j].UserID # accessTokens[i].UserID

(* C28: RevokeToken by a client changes no token row of another client;    *)
(* when the presented token belongs to another client, no access or        *)
(* refresh token row changes and that token is as valid as before.         *)
C28_RevokeOnlyOwnTokens ==
    [][ \A c \in DOMAIN clients, v \in TokenStrings, h \in Hints :
          RevokeToken(c, v, h)
            => /\ \A i \in DOMAIN accessTokens :
                    accessTokens[i].ClientID # clients[c].ID
                      => accessTokens'[i] = accessTokens[i]
               /\ \A j \in DOMAIN refreshTokens :
                    refreshTokens[j].ClientID # clients[c].ID
                      => refreshTokens'[j] = refreshTokens[j]
               /\ ( \/ \E i \in DOMAIN accessTokens :
                          /\ accessTokens[i].Token = v
                          /\ accessTokens[i].ClientID # clients[c].ID
                     \/ \E j \in DOMAIN refreshTokens :
                          /\ refreshTokens[j].Token = v
                          /\ refreshTokens[j].ClientID # clients[c].ID )
                   => /\ accessTokens' = accessTokens
                      /\ refreshTokens' = refreshTokens
                      /\ introspectActive(accessTokens', v, now')
                            = introspectActive(accessTokens, v, now) ]_vars

(* a client has been answered 200 for the access token of another client,  *)
(* which is still unrevoked                                                *)
C28_Witness ==
    /\ resp.op = "RevokeToken"
    /\ resp.status = 200
    /\ \E i \in DOMAIN accessTokens :
          /\ accessTokens[i].Token = resp.access
          /\ accessTokens[i].ClientID # resp.by
          /\ ~accessTokens[i].Revoked

(* C29: RevokeToken on an access token of the calling client changes       *)
(* nothing but that row's revoked flag: every refresh token row is         *)
(* unchanged, and the paired refresh token, if it was exchangeable, is     *)
(* still found by the refresh_token grant together with the access token   *)
(* it references.                                                          *)
C29_RefreshSurvivesAccessRevocation ==
    [][ \A c \in DOMAIN clients, v \in TokenStrings, h \in Hints :
          (OwnsAccessToken(c, v) /\ RevokeToken(c, v, h))
            => /\ refreshTokens' = refreshTokens
               /\ \A i \in DOMAIN accessTokens :
                    \/ accessTokens'[i] = accessTokens[i]
                    \/ /\ accessTokens[i].Token = v
                       /\ accessTokens'[i] = [ accessTokens[i] EXCEPT !.Revoked = TRUE ]
               /\ \A i \in DOMAIN accessTokens, j \in DOMAIN refreshTokens :
                    ( /\ accessTokens[i].Token = v
                      /\ refreshTokens[j].AccessTokenID = accessTokens[i].ID
                      /\ IsValid(refreshTokens[j], now) )
                    => /\ findRefreshToken(refreshTokens', refreshTokens[j].Token,
                                           clients[c].ID) = j
                       /\ ~IsExpired(refreshTokens'[j], now')
                       /\ findAccessTokenByID(accessTokens',
                                              refreshTokens'[j].AccessTokenID) = i ]_vars

(* the refresh token of a revoked access token has been exchanged for a    *)
(* new pair whose access token is valid                                    *)
C29_Witness ==
    /\ resp.op = "refresh_token"
    /\ resp.status = 200
    /\ \E i, n \in DOMAIN accessTokens, j \in DOMAIN refreshTokens :
          /\ accessTokens[i].Revoked
          /\ refreshTokens[j].AccessTokenID = accessTokens[i].ID
          /\ refreshTokens[j].hist # << >>
          /\ refreshTokens[j].hist[Len(refreshTokens[j].hist)]
          /\ accessTokens[n].Token = resp.access
          /\ IsValid(accessTokens[n], now)

(* C30: the owner of every tenant holds a live membership in it with role  *)
(* "owner".                                                                *)
C30_OwnerKeepsOwnerRole ==
    \A t \in DOMAIN tenants :
        \E i \in ownerRow(tenants, userTenants, t) : userTenants[i].Role = "owner"

(* C27: after RemoveUserFromTenant has answered 200 for user v and tenant  *)
(* t, the default tenants of v are what they were if t was not a default   *)
(* of v; otherwise they are the tenant of v's oldest remaining membership, *)
(* or none when v has no membership left.                                  *)
defaultsOf(rows, u) ==
    { rows[i].TenantID : i \in { j \in rowsOfUser(rows, u) : rows[j].IsDefault } }

C27_DefaultAfterRemoval ==
    [][ \A u \in UserIds, t \in 1 .. MaxTenants, v \in UserIds, l \in BOOLEAN :
          (RemoveUserFromTenant(u, t, v, l) /\ aresp'.status = 200)
            => LET remaining == rowsOfUser(userTenants', v)
               IN  IF t \notin defaultsOf(userTenants, v)
                   THEN defaultsOf(userTenants', v) = defaultsOf(userTenants, v)
                   ELSE defaultsOf(userTenants', v) =
                          IF remaining = {} THEN {}
                          ELSE { userTenants'[MinOf(remaining)].TenantID } ]_vars

(* C21: in every JWT issued by Login, SwitchTenant or SelectTenant the     *)
(* tenant name and the role are non-empty exactly when the tenant id is    *)
(* present.                                                                *)
C21_TenantFieldsTogether ==
    (aresp.op \in { "Login", "SwitchTenant", "SelectTenant" } /\ aresp.status = 200)
      => /\ aresp.token.TenantID # Nil
              => aresp.token.TenantName # "" /\ aresp.token.Role # ""
         /\ aresp.token.TenantID = Nil
              => aresp.token.TenantName = "" /\ aresp.token.Role = ""

-----------------------------------------------------------------------------
(* Properties of the JWT gate.                                             *)

(* the JWTs in a header, and those of them that ValidateToken accepts      *)
tokensIn(h) == { h[i] : i \in { j \in DOMAIN h : IsJWT(h[j]) } }

verifiedIn(h, time) ==
    { t \in tokensIn(h) : jwtutilValidateToken(<< t >>, SigningKey, time).err = "" }

(* the header has the form "Bearer <token>"                                *)
IsBearer(h) ==
    /\ Len(h) = 3
    /\ ToLower(<< h[1] >>) = << Word("bearer") >>
    /\ h[2] = WSP

TenantRoutes == { "/api/suppliers", "/api/tenant-users", "/api/products" }

(* C22: a route that requires tenant context invokes its handler only for  *)
(* verified claims with a tenant id; a valid token without tenant id is    *)
(* answered 400 or 403 and the handler is not invoked; a missing,          *)
(* malformed, wrongly-schemed or expired token is answered 401 before the  *)
(* tenant check runs.                                                      *)
C22_TenantRouteGate ==
    gresp.route \in TenantRoutes =>
        LET h == gresp.c.header
            verified == verifiedIn(h, gresp.c.time)
        IN  /\ gresp.invoked => \E t \in verified : "tenant_id" \in DOMAIN t.payload
            /\ (/\ IsBearer(h) /\ h[3] \in verified
                /\ "tenant_id" \notin DOMAIN h[3].payload)
                   => gresp.status \in { 400, 403 } /\ ~gresp.invoked
            /\ (~IsBearer(h) \/ h[3] \notin verified)
                   => /\ gresp.status = 401
                      /\ ~gresp.c.tenantChecked
                      /\ ~gresp.invoked

(* C23: ValidateToken rejects a correctly signed token from its expires-at *)
(* on, a token signed with ttl 0 included, and no JWT middleware lets a    *)
(* request with such a token reach the handler.                            *)
C23_ExpiredRejected ==
    /\ (IsJWT(jwt.token) /\ now >= jwt.token.payload.exp)
          => jwtutilValidateToken(<< jwt.token >>, SigningKey, now).err # ""
    /\ \A t \in tokensIn(gresp.c.header) :
          (/\ t.sig = hmac(SigningKey, t.alg, t.payload)
           /\ gresp.c.time >= t.payload.exp)
              => gresp.status = 401 /\ ~gresp.invoked

(* a token signed with ttl 0 was presented as "Bearer <token>" at the very *)
(* second of its expires-at and answered 401                               *)
C23_Witness ==
    /\ IsJWT(jwt.token) /\ jwt.hours = 0
    /\ gresp.c.header = << Word("Bearer"), WSP, jwt.token >>
    /\ gresp.c.time = jwt.token.payload.exp
    /\ gresp.status = 401

(* C24: while a token signed with a positive ttl is unexpired,             *)
(* ValidateToken under the same key returns the claims it was made from.   *)
C24_RoundTrip ==
    /\ (IsJWT(jwt.token) /\ jwt.hours > 0 /\ now < jwt.token.payload.exp)
          => jwtutilValidateToken(<< jwt.token >>, SigningKey, now) =
                 [ err |-> "", claims |-> jwt.claims ]
    /\ (/\ gresp.route = "/api/resource" /\ gresp.invoked
        /\ gresp.c.header = << Word("Bearer"), WSP, jwt.token >>)
          => gresp.c.user = jwt.claims

(* a token without tenant id but with a role was read back some time after *)
(* it was signed                                                           *)
C24_Witness ==
    /\ IsJWT(jwt.token) /\ jwt.hours > 0
    /\ jwt.claims.TenantID = Nil /\ jwt.claims.Role = "owner"
    /\ gresp.route = "/api/resource" /\ gresp.invoked /\ gresp.c.time > jwt.at
    /\ gresp.c.header = << Word("Bearer"), WSP, jwt.token >>
    /\ gresp.c.user = jwt.claims

=============================================================================
